---- MODULE Spec2Model ----
(***************************************************************************)
(* Model of the ExpenseFlow application core: the Store (store.js, the     *)
(* observable state container) and the Router (router.js, hash routing     *)
(* with before-guards and after-hooks).                                    *)
(*                                                                         *)
(* JavaScript values are modelled on a heap of objects so that aliasing    *)
(* between the Store's internal state and what getState() hands out is     *)
(* something the model can express.  A heap value is a scalar [s |-> str]  *)
(* or a reference [r |-> addr]; a content tree is a scalar or              *)
(* [o |-> record of trees].                                                *)
(***************************************************************************)
EXTENDS Integers, Sequences, FiniteSets, TLC

\* ------------------------------------------------------------------ bounds
MaxAddr == 9      \* heap cells
MaxRegs == 3      \* subscribe() calls
MaxMw == 2        \* use() calls

\* -------------------------------------------------------- the Router state
VARIABLES hash, pending, listening, loadPending, routes, lastOn, notFoundHandler,
          beforeHooks, afterHooks, currentRoute, trans

routerVars == <<hash, pending, listening, loadPending, routes, lastOn,
                notFoundHandler, beforeHooks, afterHooks, currentRoute, trans>>

\* ------------------------------------------------------------ the Store
VARIABLES heap, snap, listeners, middlewares, regs, calls, last, written

storeVars == <<heap, snap, listeners, middlewares, regs, calls, last, written>>
\* A call of one of the pure functions: its arguments and what it returned.
VARIABLES arg, out
calcVars == <<arg, out>>
\* The application around the Store and the Router: the browser's localStorage.
\* the values of the Store keys its handlers write, the timeouts its handlers
\* have set (in the order they fire), the number of ids generateId has given
\* out, and the expense list as it would be with every requested deletion
\* applied at once.
VARIABLES localStorage, currentView, storeExpenses, timers, issued, intended
listVars == <<storeExpenses, timers, issued, intended>>
uiVars == <<currentView, listVars>>
\* A debounced function: the clock, the host's pending timeouts, the closure's
\* timeoutId, the calls made of the debounced function and the calls made of fn.
VARIABLES clock, scheduled, timeoutId, made, invoked
debounceVars == <<clock, scheduled, timeoutId, made, invoked>>
appVars == <<localStorage, uiVars, debounceVars>>
vars == <<storeVars, routerVars, calcVars, appVars>>

\* localStorage keys (STORAGE_KEYS) and the absent item (getItem returns null)
StorageKeys == {"expenseflow_expenses", "expenseflow_settings", "expenseflow_budgets"}
NoItem == <<>>
\* debounce(fn, delay) has returned: let timeoutId (undefined), nothing scheduled
DebounceInit ==
    /\ clock = 0
    /\ scheduled = {}
    /\ timeoutId = 0
    /\ made = <<>>
    /\ invoked = <<>>

AppInit ==
    /\ localStorage = [k \in StorageKeys |-> NoItem]
    /\ currentView = "dashboard"
    /\ storeExpenses = <<>>
    /\ timers = <<>>
    /\ issued = 0
    /\ intended = <<>>
    /\ DebounceInit

Root == 1                              \* address of this._state
NoSnap == Root - 1                            \* the host holds no snapshot

Keys == {"settings", "isLoading"}      \* state keys the host writes
Wild == "*"                            \* the wildcard subscription key
SubKeys == Keys \cup {Wild}
Callbacks == {"cb1", "cb2"}            \* subscriber functions of the host
Mws == {"mw1", "mw2"}                  \* middleware functions of the host

S(x) == [s |-> x]
R(a) == [r |-> a]
O(f) == [o |-> f]
IsRef(v) == "r" \in DOMAIN v
IsObj(t) == "o" \in DOMAIN t

\* Values the host passes to setState in the data runs: numbers, NaN (a value
\* JSON cannot represent) and nested object literals.
Literals ==
    { S("1"), S("NaN"), O([budgets |-> O([food |-> S("1")])]) }
\* Values the host passes in the notification runs.
Writes == { <<"settings", S("1")>>, <<"settings", S("2")>>, <<"isLoading", S("1")>> }
\* The initial state handed to the constructor.
InitialState == [settings |-> O([budgets |-> S("0")]), isLoading |-> S("0")]

Range(q) == { q[i] : i \in 1..Len(q) }
Put(obj, k, v) == [f \in DOMAIN obj \cup {k} |-> IF f = k THEN v ELSE obj[f]]

\* ------------------------------------------------------- heap operations
Free(h) == (1..MaxAddr) \ DOMAIN h
Fresh(h) == CHOOSE a \in Free(h) : \A b \in Free(h) : a <= b

RECURSIVE Size(_)
\* number of objects a content tree needs
Size(t) ==
    IF IsObj(t)
    THEN LET F == DOMAIN t.o
             RECURSIVE Sum(_)
             Sum(T) == IF T = {} THEN 0
                       ELSE LET f == CHOOSE x \in T : TRUE
                            IN  Size(t.o[f]) + Sum(T \ {f})
         IN  1 + Sum(F)
    ELSE 0

RECURSIVE Deep(_, _)
\* the content tree a heap value denotes
Deep(h, v) ==
    IF IsRef(v)
    THEN O([f \in DOMAIN h[v.r] |-> Deep(h, h[v.r][f])])
    ELSE v

RECURSIVE Build(_, _)
\* allocate the objects of content tree t; [h |-> new heap, v |-> its value]
Build(h, t) ==
    IF ~IsObj(t) THEN [h |-> h, v |-> t]
    ELSE LET a == Fresh(h)
             RECURSIVE Fields(_, _, _)
             Fields(hh, todo, done) ==
                 IF todo = {} THEN [h |-> hh, obj |-> done]
                 ELSE LET f == CHOOSE x \in todo : TRUE
                          b == Build(hh, t.o[f])
                      IN  Fields(b.h, todo \ {f}, Put(done, f, b.v))
             r == Fields(h @@ (a :> [x \in {} |-> S("0")]), DOMAIN t.o,
                         [x \in {} |-> S("0")])
         IN  [h |-> [r.h EXCEPT ![a] = r.obj], v |-> R(a)]

RECURSIVE ReachFrom(_, _)
ReachFrom(h, A) ==
    LET Out(a) == { h[a][f].r : f \in {g \in DOMAIN h[a] : IsRef(h[a][g])} }
        N == A \cup UNION { Out(a) : a \in A }
    IN  IF N = A THEN A ELSE ReachFrom(h, N)

RECURSIVE SetToSeq(_)
SetToSeq(T) ==
    IF T = {} THEN <<>>
    ELSE LET x == CHOOSE y \in T : TRUE IN <<x>> \o SetToSeq(T \ {x})

RECURSIVE Visit(_, _, _)
\* the objects reachable from the addresses in todo, in depth-first order
Visit(h, todo, seen) ==
    IF todo = <<>> THEN seen
    ELSE LET a == Head(todo)
             refs == SetToSeq({g \in DOMAIN h[a] : IsRef(h[a][g])})
             kids == [i \in 1..Len(refs) |-> h[a][refs[i]].r]
         IN  IF a \in Range(seen) THEN Visit(h, Tail(todo), seen)
             ELSE Visit(h, kids \o Tail(todo), Append(seen, a))

\* The garbage collector: keeps the objects the Store or the host can reach.
\* Addresses are not observable in JavaScript, so the kept objects are
\* renumbered in traversal order; the result is [h |-> heap, snap |-> address].
Collect(h, sn) ==
    LET ord == Visit(h, IF sn = NoSnap THEN <<Root>> ELSE <<Root, sn>>, <<>>)
        New(a) == CHOOSE i \in 1..Len(ord) : ord[i] = a
        Ren(v) == IF IsRef(v) THEN R(New(v.r)) ELSE v
    IN  [h |-> [i \in 1..Len(ord) |-> [f \in DOMAIN h[ord[i]] |-> Ren(h[ord[i]][f])]],
         snap |-> IF sn = NoSnap THEN NoSnap ELSE New(sn)]

RECURSIVE JsonRoundTrip(_)
\* JSON.parse(JSON.stringify(t)): NaN is written as null; objects are rebuilt
JsonRoundTrip(t) ==
    IF IsObj(t) THEN O([f \in DOMAIN t.o |-> JsonRoundTrip(t.o[f])])
    ELSE IF t = S("NaN") THEN S("null") ELSE t

StoreInitHeap == Build([x \in {} |-> S("0")], O(InitialState)).h

StoreInit ==
    /\ heap = StoreInitHeap
    /\ snap = NoSnap
    /\ listeners = [k \in SubKeys |-> <<>>]
    /\ middlewares = <<>>
    /\ regs = [p \in SubKeys \X Callbacks |-> [live |-> 0, disposed |-> 0]]
    /\ calls = <<>>
    /\ last = [op |-> "new"]
    /\ written = InitialState

\* ----------------------------------------------------------- Store.getState
\* A shallow copy: a new top-level object whose fields still point into the Store.
ShallowCopy(h) ==
    LET a == Fresh(h) IN [h |-> h @@ (a :> h[Root]), v |-> R(a)]

\* JSON.parse(JSON.stringify(this._state)): every object of the result is new.
GetStateCopy(h) == Build(h, JsonRoundTrip(Deep(h, R(Root))))

\* The host calls getState() and keeps the result (dropping the one it held).
GetState ==
    /\ LET h0 == Collect(heap, NoSnap).h
       IN  /\ Cardinality(DOMAIN h0) + Size(Deep(heap, R(Root))) <= MaxAddr
           /\ LET c == GetStateCopy(h0)
                  g == Collect(c.h, c.v.r)
              IN  /\ heap' = g.h
                  /\ snap' = g.snap
                  /\ last' = [op |-> "getState", ret |-> Deep(c.h, c.v)]
    /\ calls' = <<>>
    /\ UNCHANGED <<listeners, middlewares, regs, written, routerVars, calcVars, appVars>>

\* The host assigns scalar v to field f of object a of the snapshot it holds
\* (a is the returned object itself or any object nested in it).
Mutate(a, f, v) ==
    /\ snap # NoSnap
    /\ a \in ReachFrom(heap, {snap})
    /\ f \in DOMAIN heap[a]
    /\ heap[a][f] # v
    /\ LET g == Collect([heap EXCEPT ![a][f] = v], snap)
       IN  heap' = g.h /\ snap' = g.snap
    /\ last' = [op |-> "mutate", field |-> f]
    /\ calls' = <<>>
    /\ UNCHANGED <<listeners, middlewares, regs, written, routerVars, calcVars, appVars>>

\* ----------------------------------------------------------- Store.setState
Call(kind, cb, args, h) == [kind |-> kind, cb |-> cb, args |-> args, seen |-> h[Root]]

\* this._middlewares.forEach(mw => mw({key, oldValue, newValue, state}))
MiddlewareCalls(k, v, old, h) ==
    [i \in 1..Len(middlewares) |->
        Call("mw", middlewares[i],
             <<[key |-> k, oldValue |-> old, newValue |-> v, state |-> R(Root)]>>, h)]

\* Subscribers told (oldValue, value): the two arguments exchanged.
KeyCallsSwapped(k, v, old, h) ==
    [i \in 1..Len(listeners[k]) |-> Call("key", listeners[k][i], <<old, v>>, h)]

\* this._listeners.get(key).forEach(cb => cb(value, oldValue))
KeyCalls(k, v, old, h) ==
    [i \in 1..Len(listeners[k]) |-> Call("key", listeners[k][i], <<v, old>>, h)]

\* this._listeners.get('*').forEach(cb => cb(this._state, changed))
WildCalls(changed, h) ==
    [i \in 1..Len(listeners[Wild]) |->
        Call("wild", listeners[Wild][i], <<R(Root), changed>>, h)]

\* Wildcard subscribers told before the key's own subscribers.
NotificationsWildFirst(k, v, old, h) ==
    MiddlewareCalls(k, v, old, h) \o WildCalls(S(k), h) \o KeyCalls(k, v, old, h)

\* the notifications of one setState, in the order the code makes them
Notifications(k, v, old, h) ==
    MiddlewareCalls(k, v, old, h) \o KeyCalls(k, v, old, h) \o WildCalls(S(k), h)

\* setState(k, lit): the host builds the value, the Store assigns it and notifies.
SetState(k, lit) ==
    /\ Cardinality(DOMAIN heap) + Size(lit) <= MaxAddr
    /\ LET b == Build(heap, lit)
           oldValue == b.h[Root][k]
           h1 == [b.h EXCEPT ![Root] = Put(@, k, b.v)]
       IN  /\ calls' = Notifications(k, b.v, oldValue, h1)
           /\ LET g == Collect(h1, snap) IN heap' = g.h /\ snap' = g.snap
           /\ last' = [op |-> "setState", key |-> k, value |-> lit]
    /\ written' = Put(written, k, lit)
    /\ UNCHANGED <<listeners, middlewares, regs, routerVars, calcVars, appVars>>

\* ------------------------------------- Store.setState, callbacks that throw
\* forEach has no try/catch around the callback: the first callback that throws
\* ends the forEach and the exception leaves setState, so the calls made are
\* those up to and including the first call of a callback in bad.
Throwing(q, bad) == { i \in 1..Len(q) : q[i].cb \in bad }
FirstThrow(q, bad) == CHOOSE i \in Throwing(q, bad) : \A j \in Throwing(q, bad) : i <= j
RunUntilThrow(q, bad) ==
    IF Throwing(q, bad) = {} THEN q ELSE SubSeq(q, 1, FirstThrow(q, bad))

\* setState(k, lit) when the middlewares and callbacks in bad throw
SetStateThrowing(k, lit, bad) ==
    /\ Cardinality(DOMAIN heap) + Size(lit) <= MaxAddr
    /\ LET b == Build(heap, lit)
           oldValue == b.h[Root][k]
           h1 == [b.h EXCEPT ![Root] = Put(@, k, b.v)]
           all == Notifications(k, b.v, oldValue, h1)
       IN  /\ calls' = RunUntilThrow(all, bad)
           /\ LET g == Collect(h1, snap) IN heap' = g.h /\ snap' = g.snap
           /\ last' = [op |-> "setState", key |-> k, value |-> lit, raising |-> bad,
                       threw |-> Throwing(all, bad) # {}]
    /\ written' = Put(written, k, lit)
    /\ UNCHANGED <<listeners, middlewares, regs, routerVars, calcVars, appVars>>

\* -------------------------------------------------------- Store.batchUpdate
RECURSIVE AssignAll(_, _)
\* Object.entries(updates).forEach(([key, value]) => this._state[key] = value)
AssignAll(h, ups) ==
    IF ups = <<>> THEN h
    ELSE LET b == Build(h, ups[1][2])
         IN  AssignAll([b.h EXCEPT ![Root] = Put(@, ups[1][1], b.v)], Tail(ups))

RECURSIVE PutAll(_, _)
PutAll(w, ups) ==
    IF ups = <<>> THEN w ELSE PutAll(Put(w, ups[1][1], ups[1][2]), Tail(ups))

UpdateKeys(ups) == [i \in 1..Len(ups) |-> ups[i][1]]

\* A batch that notifies like one setState per entry.
RECURSIVE BatchNotificationsPerKey(_, _)
BatchNotificationsPerKey(ups, h) ==
    IF ups = <<>> THEN <<>>
    ELSE Notifications(ups[1][1], ups[1][2], ups[1][2], h)
         \o BatchNotificationsPerKey(Tail(ups), h)

\* the notifications of one batchUpdate
BatchNotifications(ups, h) == WildCalls([keys |-> UpdateKeys(ups)], h)

\* batchUpdate(updates): ups lists the entries of updates in property order.
BatchUpdate(ups) ==
    /\ Cardinality(DOMAIN heap) + Size(O(PutAll(<<>>, ups))) <= MaxAddr
    /\ LET h1 == AssignAll(heap, ups)
       IN  /\ calls' = BatchNotifications(ups, h1)
           /\ LET g == Collect(h1, snap) IN heap' = g.h /\ snap' = g.snap
    /\ last' = [op |-> "batchUpdate", keys |-> UpdateKeys(ups)]
    /\ written' = PutAll(written, ups)
    /\ UNCHANGED <<listeners, middlewares, regs, routerVars, calcVars, appVars>>

\* The update objects a host can write: no key twice, in either property order.
Updates(vals) ==
    {<<>>} \cup { <<<<k, v>>>> : k \in Keys, v \in vals }
    \cup { <<<<p[1], v1>>, <<p[2], v2>>>> :
             p \in {q \in Keys \X Keys : q[1] # q[2]}, v1 \in vals, v2 \in vals }

\* ---------------------------------------------------- Store.subscribe / use
\* Set.prototype.add: a value already in the set is not added again.
SetAdd(q, x) == IF x \in Range(q) THEN q ELSE Append(q, x)
\* Set.prototype.delete
SetDelete(q, x) == SelectSeq(q, LAMBDA y : y # x)

\* The registrations made so far: for each (key, callback) pair, how many
\* subscribe calls have a disposer not yet invoked (live) and how many have
\* had it invoked (disposed).
Pairs == SubKeys \X Callbacks
RECURSIVE Total(_, _)
Total(rg, P) ==
    IF P = {} THEN 0
    ELSE LET p == CHOOSE x \in P : TRUE
         IN  rg[p].live + rg[p].disposed + Total(rg, P \ {p})

\* subscribe(k, cb), which returns a new disposer for (k, cb).
Subscribe(k, cb) ==
    /\ Total(regs, Pairs) < MaxRegs
    /\ listeners' = [listeners EXCEPT ![k] = SetAdd(@, cb)]
    /\ regs' = [regs EXCEPT ![<<k, cb>>].live = @ + 1]
    /\ last' = [op |-> "subscribe"]
    /\ calls' = <<>>
    /\ UNCHANGED <<heap, snap, middlewares, written, routerVars, calcVars, appVars>>

\* The host invokes a disposer that subscribe(k, cb) returned: one not invoked
\* before, or (again) one that was.
Dispose(k, cb, again) ==
    /\ IF again THEN regs[<<k, cb>>].disposed > 0 ELSE regs[<<k, cb>>].live > 0
    /\ listeners' = [listeners EXCEPT ![k] = SetDelete(@, cb)]
    /\ regs' = IF again THEN regs
               ELSE [regs EXCEPT ![<<k, cb>>] =
                        [live |-> @.live - 1, disposed |-> @.disposed + 1]]
    /\ last' = [op |-> "dispose"]
    /\ calls' = <<>>
    /\ UNCHANGED <<heap, snap, middlewares, written, routerVars, calcVars, appVars>>

\* use(mw)
Use(mw) ==
    /\ Len(middlewares) < MaxMw
    /\ middlewares' = Append(middlewares, mw)
    /\ last' = [op |-> "use"]
    /\ calls' = <<>>
    /\ UNCHANGED <<heap, snap, listeners, regs, written, routerVars, calcVars, appVars>>
\* =============================================================== the Router
MaxTrans == 2     \* activations of _handleRouteChange
MaxGuards == 2    \* beforeEach() calls
MaxAfter == 2     \* afterEach() calls

Null == "null"
Fragments == {"", "settings", "unknown"}     \* values of location.hash, '#' dropped
RoutePaths == {"dashboard", "settings"}      \* paths the host registers
Paths == RoutePaths \cup {"unknown"}

\* The functions the host registers.  The before-guard gBlock returns false at
\* once when the target is "settings" and undefined otherwise; gSlowOk and
\* gSlowNo return a promise that later resolves to true and to false.  Handlers
\* and after-hooks return at once or return a promise.
Guards == {"gBlock", "gSlowOk", "gSlowNo"}
Handlers == {"h1", "h2"}
NotFoundFns == {"nf"}
AfterFns == {"a1", "a2"}
IsAsync(fn) == fn \in {"gSlowOk", "gSlowNo", "h2", "a2"}
Result(fn, args) ==
    CASE fn = "gBlock" -> IF args[1] = "settings" THEN "false" ELSE "undefined"
      [] fn = "gSlowNo" -> "false"
      [] fn \in {"gSlowOk", "beforeEachHook"} -> "true"
      [] OTHER -> "undefined"

\* _parseHash for a fragment without a query string
ParseHash(h) == [path |-> IF h = "" THEN "dashboard" ELSE h, params |-> <<>>]

RouterInit ==
    /\ hash = ""
    /\ pending = 0
    /\ listening = FALSE
    /\ loadPending = FALSE
    /\ routes = [p \in RoutePaths |-> Null]
    /\ lastOn = [p \in RoutePaths |-> Null]
    /\ notFoundHandler = Null
    /\ beforeHooks = <<>>
    /\ afterHooks = <<>>
    /\ currentRoute = Null
    /\ trans = <<>>

\* ---------------------------------------------------------- registration
\* The host configures the router before it calls init(), as setupRouter does.
\* Map.prototype.set keeps the first handler: a later registration is ignored.
MapSetFirst(m, p, h) == IF m[p] = Null THEN [m EXCEPT ![p] = h] ELSE m

\* Map.prototype.set
MapSet(m, p, h) == [m EXCEPT ![p] = h]

On(p, h) ==
    /\ ~listening
    /\ routes' = MapSet(routes, p, h)
    /\ lastOn' = [lastOn EXCEPT ![p] = h]
    /\ UNCHANGED <<storeVars, calcVars, appVars, hash, pending, listening, loadPending, notFoundHandler,
                   beforeHooks, afterHooks, currentRoute, trans>>

NotFound(h) ==
    /\ ~listening
    /\ notFoundHandler' = h
    /\ UNCHANGED <<storeVars, calcVars, appVars, hash, pending, listening, loadPending, routes, lastOn,
                   beforeHooks, afterHooks, currentRoute, trans>>

BeforeEach(g) ==
    /\ ~listening
    /\ Len(beforeHooks) < MaxGuards
    /\ beforeHooks' = Append(beforeHooks, g)
    /\ UNCHANGED <<storeVars, calcVars, appVars, hash, pending, listening, loadPending, routes, lastOn,
                   notFoundHandler, afterHooks, currentRoute, trans>>

AfterEach(a) ==
    /\ ~listening
    /\ Len(afterHooks) < MaxAfter
    /\ afterHooks' = Append(afterHooks, a)
    /\ UNCHANGED <<storeVars, calcVars, appVars, hash, pending, listening, loadPending, routes, lastOn,
                   notFoundHandler, beforeHooks, currentRoute, trans>>

\* ---------------------------------------------------- _handleRouteChange
\* A transition is one activation of the async function.  Its log lists what it
\* did: hook calls [ev, fn, args], their returns [ev |-> "ret", of, res] (of is
\* the log position of the call; an asynchronous hook returns when its promise
\* settles), the assignment of _currentRoute and the nav-link update.  It is
\* suspended at an await on the call at position wait; ready says that the
\* awaited value has arrived and the continuation is queued as a microtask.

\* tr calls fn and awaits what it returns
CallHook(tr, pc, i, ev, fn, args) ==
    LET n == Len(tr.log) + 1
        call == [ev |-> ev, fn |-> fn, args |-> args]
        ret == [ev |-> "ret", of |-> n, res |-> Result(fn, args)]
    IN  [tr EXCEPT !.pc = pc, !.i = i, !.wait = n,
                   !.ready = ~IsAsync(fn),
                   !.res = IF IsAsync(fn) THEN "promise" ELSE Result(fn, args),
                   !.log = @ \o (IF IsAsync(fn) THEN <<call>> ELSE <<call, ret>>)]

\* The after-hook is called and its promise is not awaited.
AfterStepNoAwait(tr, i) ==
    IF i <= Len(afterHooks)
    THEN [CallHook(tr, "after", i, "after", afterHooks[i], <<tr.path, tr.prev>>)
             EXCEPT !.ready = TRUE]
    ELSE [tr EXCEPT !.pc = "done", !.ready = FALSE]

\* for (const hook of this._afterHooks) await hook(path, previousRoute)
AfterStep(tr, i) ==
    IF i <= Len(afterHooks)
    THEN CallHook(tr, "after", i, "after", afterHooks[i], <<tr.path, tr.prev>>)
    ELSE [tr EXCEPT !.pc = "done", !.ready = FALSE]

\* this._updateNavLinks(path), then the after-hooks
AfterHandler(tr) ==
    AfterStep([tr EXCEPT !.log = Append(@, [ev |-> "nav", to |-> tr.path])], 1)

\* The not-found handler is preferred to the route's own handler.
LookupNotFoundFirst(path) ==
    IF notFoundHandler # Null THEN <<"notFound", notFoundHandler>>
    ELSE IF path \in DOMAIN routes /\ routes[path] # Null
         THEN <<"handler", routes[path]>>
         ELSE <<"none">>

\* A path without a handler falls back to the handler of the default route.
LookupFallback(path) ==
    IF path \in DOMAIN routes /\ routes[path] # Null
    THEN <<"handler", routes[path]>>
    ELSE IF notFoundHandler # Null THEN <<"notFound", notFoundHandler>>
         ELSE IF routes["dashboard"] # Null THEN <<"handler", routes["dashboard"]>>
              ELSE <<"none">>

\* const handler = this._routes.get(path); if (handler) ... else if (notFound) ...
Lookup(path) ==
    IF path \in DOMAIN routes /\ routes[path] # Null
    THEN <<"handler", routes[path]>>
    ELSE IF notFoundHandler # Null THEN <<"notFound", notFoundHandler>>
         ELSE <<"none">>

\* this._currentRoute = path, then the handler; the result is the transition
\* and the new value of _currentRoute.
Commit(tr, cur) ==
    LET t1 == [tr EXCEPT !.log = Append(@, [ev |-> "path", to |-> tr.path])]
        l == Lookup(tr.path)
    IN  [cur |-> tr.path,
         tr |-> CASE l[1] = "handler" ->
                       CallHook(t1, "handler", 0, "handler", l[2], <<tr.params>>)
                  [] l[1] = "notFound" ->
                       CallHook(t1, "handler", 0, "notFound", l[2], <<tr.path>>)
                  [] OTHER -> AfterHandler(t1)]

\* The guard is called and its promise is not awaited.
GuardCallNoAwait(tr, i) ==
    LET c == CallHook(tr, "guard", i, "guard", beforeHooks[i], <<tr.path, tr.prev>>)
    IN  [c EXCEPT !.ready = TRUE]

\* const result = await hook(path, previousRoute)
GuardCall(tr, i) ==
    CallHook(tr, "guard", i, "guard", beforeHooks[i], <<tr.path, tr.prev>>)

\* for (const hook of this._beforeHooks) ..., then the commit
GuardStep(tr, cur, i) ==
    IF i <= Len(beforeHooks)
    THEN [cur |-> cur, tr |-> GuardCall(tr, i)]
    ELSE Commit(tr, cur)

\* A guard cancels nothing.
CancelsNever(res) == FALSE

\* if (result === false) return
Cancels(res) == res = "false"

\* the synchronous start of _handleRouteChange: _parseHash, previousRoute, first guard
Started ==
    LET p == ParseHash(hash)
        tr == [path |-> p.path, params |-> p.params, prev |-> currentRoute,
               pc |-> "start", i |-> 0, wait |-> 0, ready |-> FALSE,
               res |-> "undefined", log |-> <<>>]
    IN  GuardStep(tr, currentRoute, 1)
Begin ==
    /\ Len(trans) < MaxTrans
    /\ trans' = Append(trans, Started.tr)
    /\ currentRoute' = Started.cur

\* Microtasks run before the next task: while a continuation is queued, no
\* event is delivered and the host runs nothing else.
Idle == \A t \in 1..Len(trans) : ~trans[t].ready

\* router.init()
RouterInitCall ==
    /\ ~listening
    /\ listening' = TRUE
    /\ loadPending' = TRUE
    /\ Begin
    /\ UNCHANGED <<storeVars, calcVars, appVars, hash, pending, routes, lastOn, notFoundHandler, beforeHooks,
                   afterHooks>>

\* the window's load event, delivered once after init()
Load ==
    /\ listening /\ loadPending /\ Idle
    /\ loadPending' = FALSE
    /\ Begin
    /\ UNCHANGED <<storeVars, calcVars, appVars, hash, pending, listening, routes, lastOn, notFoundHandler,
                   beforeHooks, afterHooks>>

\* The fragment is assigned and the transition starts inside the call.
NavigateAndRoute(f) ==
    /\ listening /\ Idle
    /\ f # hash
    /\ pending + Len(trans) < MaxTrans
    /\ hash' = f
    /\ LET p == ParseHash(f)
           tr == [path |-> p.path, params |-> p.params, prev |-> currentRoute,
                  pc |-> "start", i |-> 0, wait |-> 0, ready |-> FALSE,
                  res |-> "undefined", log |-> <<>>]
           g == GuardStep(tr, currentRoute, 1)
       IN  trans' = Append(trans, g.tr) /\ currentRoute' = g.cur
    /\ UNCHANGED <<storeVars, calcVars, appVars, pending, listening, loadPending, routes, lastOn,
                   notFoundHandler, beforeHooks, afterHooks>>

\* navigate(path), or the user following a link: the fragment changes and the
\* browser queues a hashchange event.
Navigate(f) ==
    /\ listening /\ Idle
    /\ f # hash
    /\ pending + Len(trans) < MaxTrans
    /\ hash' = f
    /\ pending' = pending + 1
    /\ UNCHANGED <<storeVars, calcVars, appVars, listening, loadPending, routes, lastOn, notFoundHandler,
                   beforeHooks, afterHooks, currentRoute, trans>>

\* a queued hashchange event is delivered
HashChange ==
    /\ listening /\ Idle
    /\ pending > 0
    /\ pending' = pending - 1
    /\ Begin
    /\ UNCHANGED <<storeVars, calcVars, appVars, hash, listening, loadPending, routes, lastOn, notFoundHandler,
                   beforeHooks, afterHooks>>

\* asynchronous calls of transition t that have not returned
InFlight(t) ==
    { n \in 1..(IF t <= Len(trans) THEN Len(trans[t].log) ELSE 0) :
        /\ trans[t].log[n].ev \in {"guard", "handler", "notFound", "after"}
        /\ \A m \in 1..Len(trans[t].log) :
              ~(trans[t].log[m].ev = "ret" /\ trans[t].log[m].of = n) }

\* The promise of an asynchronous hook settles.
Settle(t, n) ==
    /\ Idle
    /\ t \in 1..Len(trans)
    /\ LET tr == trans[t]
           r == Result(tr.log[n].fn, tr.log[n].args)
           logged == [tr EXCEPT !.log = Append(@, [ev |-> "ret", of |-> n, res |-> r])]
       IN  trans' = [trans EXCEPT ![t] =
                IF tr.pc \in {"guard", "handler", "after"} /\ tr.wait = n /\ ~tr.ready
                   /\ tr.res = "promise"
                THEN [logged EXCEPT !.ready = TRUE, !.res = r]
                ELSE logged]
    /\ UNCHANGED <<storeVars, calcVars, appVars, hash, pending, listening, loadPending, routes, lastOn,
                   notFoundHandler, beforeHooks, afterHooks, currentRoute>>

\* the code after the await of transition t, up to its next await
Continued(t) ==
    LET tr == [trans[t] EXCEPT !.ready = FALSE]
    IN  CASE tr.pc = "guard" ->
                 IF Cancels(tr.res)
                 THEN [cur |-> currentRoute, tr |-> [tr EXCEPT !.pc = "cancelled"]]
                 ELSE GuardStep(tr, currentRoute, tr.i + 1)
          [] tr.pc = "handler" -> [cur |-> currentRoute, tr |-> AfterHandler(tr)]
          [] OTHER -> [cur |-> currentRoute, tr |-> AfterStep(tr, tr.i + 1)]

\* The continuation of transition t runs: the code after its await.
Resume(t) ==
    /\ t \in 1..Len(trans) /\ trans[t].ready
    /\ trans' = [trans EXCEPT ![t] = Continued(t).tr]
    /\ currentRoute' = Continued(t).cur
    /\ UNCHANGED <<storeVars, calcVars, appVars, hash, pending, listening, loadPending, routes, lastOn,
                   notFoundHandler, beforeHooks, afterHooks>>

\* ------------------------------------------------------- specifications
\* no pure function has been called
NoCall == [done |-> FALSE]
Init == StoreInit /\ RouterInit /\ AppInit /\ arg = NoCall /\ out = NoCall

\* The Store as a container of values: writes, snapshots, mutation of snapshots.
NextData ==
    \/ \E k \in Keys, lit \in Literals : SetState(k, lit)
    \/ \E ups \in Updates({S("2")}) : BatchUpdate(ups)
    \/ GetState
    \/ \E a \in 1..MaxAddr, f \in {"settings", "isLoading", "budgets", "food"} :
          Mutate(a, f, S("9"))

SpecData == Init /\ [][NextData]_vars

\* The Store as a notifier: subscriptions, middleware, notifications.
NextStore ==
    \/ \E w \in Writes : SetState(w[1], w[2])
    \/ \E ups \in Updates({S("1")}) : BatchUpdate(ups)
    \/ \E k \in SubKeys, cb \in Callbacks : Subscribe(k, cb)
    \/ \E mw \in Mws : Use(mw)

SpecStore == Init /\ [][NextStore]_vars

\* The Store's registry: subscribe calls, their disposers, and notification.
NextSubs ==
    \/ \E k \in SubKeys, cb \in Callbacks : Subscribe(k, cb)
    \/ \E k \in SubKeys, cb \in Callbacks, again \in BOOLEAN : Dispose(k, cb, again)
    \/ \E k \in Keys : SetState(k, S("1"))

SpecSubs == Init /\ [][NextSubs]_vars

\* The Store with middlewares and subscribers that throw.
NextThrow ==
    \/ \E k \in SubKeys, cb \in Callbacks : Subscribe(k, cb)
    \/ \E mw \in Mws : Use(mw)
    \/ \E k \in Keys, bad \in {{}} \cup {{f} : f \in Mws \cup Callbacks} :
          SetStateThrowing(k, S("1"), bad)

SpecThrow == Init /\ [][NextThrow]_vars

\* The Router: configuration, then init(), fragment changes and transitions.
NextRouter ==
    \/ \E p \in RoutePaths, h \in Handlers : On(p, h)
    \/ \E h \in NotFoundFns : NotFound(h)
    \/ \E g \in Guards : BeforeEach(g)
    \/ \E a \in AfterFns : AfterEach(a)
    \/ RouterInitCall
    \/ Load
    \/ \E f \in Fragments : Navigate(f)
    \/ HashChange
    \/ \E t \in 1..MaxTrans : \E n \in InFlight(t) : Settle(t, n)
    \/ \E t \in 1..MaxTrans : Resume(t)

SpecRouter == Init /\ [][NextRouter]_vars

\* ============================================== Router._parseHash on text
\* The fragment as text: a sequence of characters.  ParseHash above is this
\* function on fragments that have no query string.
MaxFrag == 5      \* characters in a fragment
FragChars == {"s", "?", "&", "=", "%", "4"}
HexDigits == {"4"}
FragTexts == UNION { [1..n -> FragChars] : n \in 0..MaxFrag }
Dashboard == <<"d", "a", "s", "h", "b", "o", "a", "r", "d">>

\* String.prototype.split(sep) for a one-character separator
RECURSIVE Split(_, _)
Split(cs, sep) ==
    LET at == { i \in 1..Len(cs) : cs[i] = sep }
    IN  IF at = {} THEN <<cs>>
        ELSE LET i == CHOOSE x \in at : \A y \in at : x <= y
             IN  <<SubSeq(cs, 1, i - 1)>> \o Split(SubSeq(cs, i + 1, Len(cs)), sep)

\* the character a percent sequence stands for
Byte(hi, lo) == IF hi = "4" /\ lo = "4" THEN "D" ELSE "?"

\* decodeURIComponent: a '%' not followed by two hex digits makes it throw
\* URIError (ok is FALSE).
RECURSIVE DecodeURIComponent(_)
DecodeURIComponent(cs) ==
    IF cs = <<>> THEN [ok |-> TRUE, v |-> <<>>]
    ELSE IF Head(cs) = "%"
         THEN IF Len(cs) >= 3 /\ cs[2] \in HexDigits /\ cs[3] \in HexDigits
              THEN LET r == DecodeURIComponent(SubSeq(cs, 4, Len(cs)))
                   IN  [ok |-> r.ok, v |-> <<Byte(cs[2], cs[3])>> \o r.v]
              ELSE [ok |-> FALSE, v |-> <<>>]
         ELSE LET r == DecodeURIComponent(Tail(cs))
              IN  [ok |-> r.ok, v |-> <<Head(cs)>> \o r.v]

\* const [key, value] = pair.split('='), with value || ''
PairKey(pair) == Split(pair, "=")[1]
PairValue(pair) == IF Len(Split(pair, "=")) >= 2 THEN Split(pair, "=")[2] ELSE <<>>

\* queryString.split('&').forEach(pair => params[decode(key)] = decode(value || ''))
RECURSIVE ParsePairs(_, _)
ParsePairs(pairs, params) ==
    IF pairs = <<>> THEN [ok |-> TRUE, params |-> params]
    ELSE LET k == DecodeURIComponent(PairKey(Head(pairs)))
             v == DecodeURIComponent(PairValue(Head(pairs)))
         IN  IF k.ok /\ v.ok
             THEN ParsePairs(Tail(pairs), Put(params, k.v, v.v))
             ELSE [ok |-> FALSE, params |-> params]

\* the pairs of the query string; none when it is absent or empty
QueryPairs(cs) ==
    LET pieces == Split(IF cs = <<>> THEN Dashboard ELSE cs, "?")
    IN  IF Len(pieces) >= 2 /\ pieces[2] # <<>> THEN Split(pieces[2], "&") ELSE <<>>

\* _parseHash on the fragment cs (location.hash without its '#')
ParseHashText(cs) ==
    LET text == IF cs = <<>> THEN Dashboard ELSE cs
        r == ParsePairs(QueryPairs(cs), <<>>)
    IN  [ok |-> r.ok, path |-> Split(text, "?")[1], params |-> r.params]

\* The start of _handleRouteChange: when _parseHash throws, the async function
\* rejects before any guard is called; otherwise it goes on to the guards.
RouteChangeParse ==
    /\ arg.done /\ ~out.done
    /\ LET r == ParseHashText(arg.hash)
       IN  out' = IF r.ok
                  THEN [done |-> TRUE, failed |-> FALSE, next |-> "guards",
                        path |-> r.path, params |-> r.params]
                  ELSE [done |-> TRUE, failed |-> TRUE, next |-> "rejected"]
    /\ UNCHANGED <<storeVars, routerVars, appVars, arg>>

InitParse ==
    /\ StoreInit /\ RouterInit /\ AppInit
    /\ arg \in [done : {TRUE}, hash : FragTexts]
    /\ out = NoCall
SpecParse == InitParse /\ [][RouteChangeParse]_vars

\* ================================================= the expense calculations
MaxExpenses == 3   \* records in an expense list
SeqsUpTo(T, n) == UNION { [1..k -> T] : k \in 0..n }

\* CATEGORIES
CategoryKeys == {"food", "travel", "shopping", "bills", "entertainment", "health", "other"}

\* expenses.forEach(exp => { if (totals.hasOwnProperty(exp.category)) totals[...] += exp.amount })
RECURSIVE AddToTotals(_, _)
AddToTotals(totals, expenses) ==
    IF expenses = <<>> THEN totals
    ELSE LET exp == Head(expenses)
         IN  AddToTotals(IF exp.category \in DOMAIN totals
                         THEN [totals EXCEPT ![exp.category] = @ + exp.amount]
                         ELSE totals,
                         Tail(expenses))

\* calculateCategoryTotals
CalculateCategoryTotals(expenses) ==
    AddToTotals([cat \in CategoryKeys |-> 0], expenses)

\* the lists calculateCategoryTotals is called with: known categories and one
\* that CATEGORIES does not have
TotalsInputs ==
    SeqsUpTo([category : {"food", "other", "pets"}, amount : {1, 2}], MaxExpenses)

CallCategoryTotals ==
    /\ arg.done /\ ~out.done
    /\ out' = [done |-> TRUE, totals |-> CalculateCategoryTotals(arg.expenses)]
    /\ UNCHANGED <<storeVars, routerVars, appVars, arg>>

InitTotals ==
    /\ StoreInit /\ RouterInit /\ AppInit
    /\ arg \in [done : {TRUE}, expenses : TotalsInputs]
    /\ out = NoCall
SpecTotals == InitTotals /\ [][CallCategoryTotals]_vars

\* ============================================================== applyFilters
MaxFiltered == 3   \* records in the list given to applyFilters

\* ---- text
\* String.prototype.toLowerCase on the letters the model uses
ToLowerCase(text) ==
    [i \in 1..Len(text) |->
        CASE text[i] = "O" -> "o" [] text[i] = "T" -> "t" [] OTHER -> text[i]]
\* String.prototype.includes
Includes(text, q) ==
    \E i \in 0..(Len(text) - Len(q)) : SubSeq(text, i + 1, i + Len(q)) = q
\* String.prototype.startsWith
StartsWith(text, q) == Len(q) <= Len(text) /\ SubSeq(text, 1, Len(q)) = q
\* the characters of a category key
CategoryText(cat) ==
    CASE cat = "food" -> <<"f", "o", "o", "d">>
      [] cat = "other" -> <<"o", "t", "h", "e", "r">>
      [] OTHER -> <<"p", "e", "t", "s">>

\* ---- dates
Digit(n) == CASE n = 0 -> "0" [] n = 1 -> "1" [] n = 2 -> "2" [] n = 3 -> "3"
              [] n = 4 -> "4" [] n = 5 -> "5" [] n = 6 -> "6" [] n = 7 -> "7"
              [] n = 8 -> "8" [] OTHER -> "9"
DigitValue(c) == CHOOSE n \in 0..9 : Digit(n) = c
\* String(n) for a four-digit year
YearText(y) ==
    <<Digit(y \div 1000), Digit((y \div 100) % 10), Digit((y \div 10) % 10), Digit(y % 10)>>
\* String(n).padStart(2, '0')
PadStart2(n) == IF n < 10 THEN <<"0", Digit(n)>> ELSE <<Digit(n \div 10), Digit(n % 10)>>
\* the date string 'YYYY-MM-DD' the expense form stores
DateText(y, mo, d) == YearText(y) \o <<"-">> \o PadStart2(mo) \o <<"-">> \o PadStart2(d)
Number(text) ==
    IF Len(text) = 4
    THEN DigitValue(text[1]) * 1000 + DigitValue(text[2]) * 100
         + DigitValue(text[3]) * 10 + DigitValue(text[4])
    ELSE DigitValue(text[1]) * 10 + DigitValue(text[2])
\* the days of the months before month mo (no leap year from 2025 to 2027)
DaysBefore(mo) ==
    CASE mo = 1 -> 0 [] mo = 2 -> 31 [] mo = 3 -> 59 [] mo = 4 -> 90 [] mo = 5 -> 120
      [] mo = 6 -> 151 [] mo = 7 -> 181 [] mo = 8 -> 212 [] mo = 9 -> 243
      [] mo = 10 -> 273 [] mo = 11 -> 304 [] OTHER -> 334
\* days from 2025-01-01 to the day y-mo-d
DayNo(y, mo, d) == (y - 2025) * 365 + DaysBefore(mo) + d - 1
\* new Date('YYYY-MM-DD'): midnight UTC of that day, here in hours of local
\* time counted from 2025-01-01 00:00 local, in a zone tz hours from UTC
NewDate(text, tz) ==
    DayNo(Number(SubSeq(text, 1, 4)), Number(SubSeq(text, 6, 7)),
          Number(SubSeq(text, 9, 10))) * 24 + tz
\* Date.prototype.getDay: 2025-01-01 is a Wednesday
GetDay(dayNo) == (dayNo + 3) % 7

\* getDateRange(range) when the local date is now = [y, mo, d]
GetDateRange(range, now) ==
    LET today == DayNo(now.y, now.mo, now.d)
        first == CASE range = "today" -> today
                   [] range = "week" -> today - GetDay(today)
                   [] range = "month" -> DayNo(now.y, now.mo, 1)
                   [] range = "year" -> DayNo(now.y, 1, 1)
                   [] range = "last30" -> today - 30
                   [] range = "last90" -> today - 90
                   [] OTHER -> DayNo(1970, now.mo, now.d)
    IN  [start |-> first * 24, end |-> today * 24 + 23]

\* ---- arrays: mem maps the name of an array to its elements
\* [...arr]
Spread(mem, from, to) == to :> mem[from] @@ mem
\* arr.filter(P), given the set of the elements of arr for which P returns true
Filter(mem, from, to, passing) ==
    to :> SelectSeq(mem[from], LAMBDA e : e \in passing) @@ mem

\* ---- sortBy
\* the value sortBy compares
SortKey(e, prop, tz) == IF prop = "date" THEN NewDate(e.date, tz) ELSE e.amount
\* the comparator says that a goes after b: it returns 1
GoesAfter(a, b, prop, order, tz) ==
    IF order = "asc" THEN SortKey(a, prop, tz) > SortKey(b, prop, tz)
    ELSE SortKey(a, prop, tz) < SortKey(b, prop, tz)
Rearrangements(q) ==
    { [i \in 1..Len(q) |-> q[p[i]]] :
        p \in { f \in [1..Len(q) -> 1..Len(q)] : \A i, j \in 1..Len(q) : i # j => f[i] # f[j] } }
\* Array.prototype.sort with this comparator.  The comparator never returns 0:
\* for two elements with equal values it answers -1 whichever is asked first,
\* so it is not a consistent comparator and the order among such elements is
\* left to the engine (V8 reverses a run of them, a merge sort keeps them).
\* Every arrangement that agrees with the answers for unequal values can result.
SortResults(q, prop, order, tz) ==
    { r \in Rearrangements(q) :
        \A i, j \in 1..Len(r) : i < j => ~GoesAfter(r[i], r[j], prop, order, tz) }

\* Only records of a category named "all" pass the category filter.
CategoryWantedStrict(filters) == filters.category # ""

\* if (filters.category && filters.category !== 'all')
CategoryWanted(filters) == filters.category # "" /\ filters.category # "all"

NoSort == [prop |-> "", order |-> ""]

\* applyFilters(expenses, filters): the arrays after the call and the name of
\* the array returned, for each result the sort can give.
ApplyFilters(expenses, filters, now, tz) ==
    LET m0 == Spread("expenses" :> expenses, "expenses", "result")
        query == ToLowerCase(filters.searchQuery)
        Matches(e) == \/ Includes(ToLowerCase(e.description), query)
                      \/ Includes(ToLowerCase(CategoryText(e.category)), query)
        m1 == IF filters.searchQuery # <<>> THEN Filter(m0, "result", "result",
                          { e \in Range(m0["result"]) : Matches(e) })
              ELSE m0
        InCategory(e) == e.category = filters.category
        m2 == IF CategoryWanted(filters) THEN Filter(m1, "result", "result",
                          { e \in Range(m1["result"]) : InCategory(e) })
              ELSE m1
        range == GetDateRange(filters.dateRange, now)
        InRange(e) == NewDate(e.date, tz) >= range.start /\ NewDate(e.date, tz) <= range.end
        m3 == IF filters.dateRange # "" /\ filters.dateRange # "all"
              THEN Filter(m2, "result", "result",
                          { e \in Range(m2["result"]) : InRange(e) })
              ELSE m2
    IN  IF filters.sortBy # NoSort
        THEN { [mem |-> "sorted" :> r @@ m3, ret |-> "sorted"] :
                  r \in SortResults(m3["result"], filters.sortBy.prop,
                                    filters.sortBy.order, tz) }
        ELSE { [mem |-> m3, ret |-> "result"] }

\* ---- the calls
Today == [y |-> 2026, mo |-> 11, d |-> 4]
Descriptions == [food |-> <<"T", "e", "a">>, other |-> <<"b", "u", "s">>]
ExpenseRecords ==
    { [category |-> c, amount |-> a, date |-> dt, description |-> Descriptions[c]] :
        c \in {"food", "other"}, a \in {1, 2},
        dt \in {DateText(2026, 11, 4), DateText(2026, 10, 31)} }
\* lists of records whose ids are their positions
ExpenseLists ==
    { [i \in 1..Len(q) |-> [id |-> i] @@ q[i]] : q \in SeqsUpTo(ExpenseRecords, MaxFiltered) }
FilterSpecs ==
    [searchQuery : {<<>>, <<"O">>}, category : {"all", "food"},
     dateRange : {"all", "month"},
     sortBy : {NoSort} \cup [prop : {"date", "amount"}, order : {"asc", "desc"}]]
\* the host's time zone, in hours from UTC
TzHours == {-5}

CallApplyFilters ==
    /\ arg.done /\ ~out.done
    /\ \E o \in ApplyFilters(arg.expenses, arg.filters, Today, arg.tz) :
          out' = [done |-> TRUE, result |-> o.mem[o.ret], input |-> o.mem["expenses"],
                  fresh |-> o.ret # "expenses"]
    /\ UNCHANGED <<storeVars, routerVars, appVars, arg>>

InitFilter ==
    /\ StoreInit /\ RouterInit /\ AppInit
    /\ arg \in [done : {TRUE}, expenses : ExpenseLists, filters : FilterSpecs, tz : TzHours]
    /\ out = NoCall
SpecFilter == InitFilter /\ [][CallApplyFilters]_vars

\* ============================================================ calculateStats
\* JavaScript numbers are binary floating-point values: every sum and quotient
\* is rounded to the nearest representable value, ties to the even significand.
\* The model keeps the format and shortens the significand to SigBits bits;
\* values are counted in units of the smallest spacing.
SigBits == 3       \* bits of the significand
MaxNumbers == 3    \* numbers in a list
RECURSIVE Pow2(_)
Pow2(n) == IF n = 0 THEN 1 ELSE 2 * Pow2(n - 1)
\* the spacing of the representable values at x
Ulp(x) ==
    IF x < Pow2(SigBits) THEN 1
    ELSE CHOOSE u \in { Pow2(e) : e \in 1..(SigBits + 4) } :
            u * Pow2(SigBits - 1) <= x /\ x < u * Pow2(SigBits)
IsFloat(x) == x % Ulp(x) = 0
\* the representable value nearest to n / d
Round(n, d) ==
    LET q == n \div d
        lo == (q \div Ulp(q)) * Ulp(q)
        hi == lo + Ulp(lo)
        below == 2 * (n - lo * d)
        span == (hi - lo) * d
    IN  IF below < span THEN lo
        ELSE IF below > span THEN hi
        ELSE IF (lo \div Ulp(lo)) % 2 = 0 THEN lo ELSE hi
FloatAdd(a, b) == Round(a + b, 1)
FloatDiv(a, b) == Round(a, b)

\* numbers.reduce((a, b) => a + b, 0)
RECURSIVE Reduce(_, _)
Reduce(acc, q) == IF q = <<>> THEN acc ELSE Reduce(FloatAdd(acc, Head(q)), Tail(q))

\* The first element is taken for the least.
MathMinFirst(q) == Head(q)

\* Math.min(...numbers)
RECURSIVE MathMin(_)
MathMin(q) ==
    IF Len(q) = 1 THEN Head(q)
    ELSE LET r == MathMin(Tail(q)) IN IF Head(q) < r THEN Head(q) ELSE r

\* Math.max(...numbers)
RECURSIVE MathMax(_)
MathMax(q) ==
    IF Len(q) = 1 THEN Head(q)
    ELSE LET r == MathMax(Tail(q)) IN IF Head(q) > r THEN Head(q) ELSE r

\* calculateStats
CalculateStats(numbers) ==
    IF Len(numbers) = 0
    THEN [sum |-> 0, avg |-> 0, min |-> 0, max |-> 0, count |-> 0]
    ELSE LET sum == Reduce(0, numbers)
         IN  [sum |-> sum, avg |-> FloatDiv(sum, Len(numbers)),
              min |-> MathMin(numbers), max |-> MathMax(numbers),
              count |-> Len(numbers)]

\* calculateExpenseStats
CalculateExpenseStats(expenses) ==
    LET amounts == [i \in 1..Len(expenses) |-> expenses[i].amount]
        stats == CalculateStats(amounts)
    IN  [total |-> stats.sum, avg |-> stats.avg, min |-> stats.min,
         max |-> stats.max, count |-> stats.count]

\* the amounts of the records: the representable values below 2^SigBits
Amounts == 1..(Pow2(SigBits) - 1)

CallExpenseStats ==
    /\ arg.done /\ ~out.done
    /\ out' = [done |-> TRUE, stats |-> CalculateExpenseStats(arg.expenses)]
    /\ UNCHANGED <<storeVars, routerVars, appVars, arg>>

InitStats ==
    /\ StoreInit /\ RouterInit /\ AppInit
    /\ arg \in [done : {TRUE}, expenses : SeqsUpTo([amount : Amounts], MaxNumbers)]
    /\ out = NoCall
SpecStats == InitStats /\ [][CallExpenseStats]_vars

\* ======================================================== getMonthlySpending
MaxMonthly == 3    \* records in the list given to getMonthlySpending

\* The year is not carried: month numbers wrap inside the current year.
MonthStartNoCarry(y, month) == [y |-> y, mo |-> (month % 12) + 1]

\* new Date(year, month, 1) for a month index that may be negative: the year
\* and the month (1..12) of the date it denotes
MonthStart(y, month) == [y |-> y + (month \div 12), mo |-> (month % 12) + 1]

\* `${date.getFullYear()}-${String(date.getMonth() + 1).padStart(2, '0')}`
MonthKey(date) == YearText(date.y) \o <<"-">> \o PadStart2(date.mo)

\* date.toLocaleDateString('en-US', { month: 'short' })
MonthShort(mo) ==
    CASE mo = 1 -> "Jan" [] mo = 2 -> "Feb" [] mo = 3 -> "Mar" [] mo = 4 -> "Apr"
      [] mo = 5 -> "May" [] mo = 6 -> "Jun" [] mo = 7 -> "Jul" [] mo = 8 -> "Aug"
      [] mo = 9 -> "Sep" [] mo = 10 -> "Oct" [] mo = 11 -> "Nov" [] OTHER -> "Dec"

\* one turn of the loop: the entry pushed for i months before the current one
MonthEntry(expenses, now, i) ==
    LET date == MonthStart(now.y, (now.mo - 1) - i)
        InMonth(exp) == StartsWith(exp.date, MonthKey(date))
        matching == SelectSeq(expenses, InMonth)
    IN  [label |-> MonthShort(date.mo),
         value |-> Reduce(0, [k \in 1..Len(matching) |-> matching[k].amount])]

\* getMonthlySpending(expenses) when the local date is now: for (i = 5; i >= 0; i--)
GetMonthlySpending(expenses, now) == [k \in 1..6 |-> MonthEntry(expenses, now, 6 - k)]

MonthlyRecords ==
    [amount : {1, 2},
     date : {DateText(2026, 11, 4), DateText(2026, 10, 31), DateText(2025, 11, 15),
             DateText(2026, 1, 1), DateText(2025, 9, 30)}]
Nows == {Today, [y |-> 2026, mo |-> 2, d |-> 10]}

CallMonthlySpending ==
    /\ arg.done /\ ~out.done
    /\ out' = [done |-> TRUE, months |-> GetMonthlySpending(arg.expenses, arg.now)]
    /\ UNCHANGED <<storeVars, routerVars, appVars, arg>>

InitMonthly ==
    /\ StoreInit /\ RouterInit /\ AppInit
    /\ arg \in [done : {TRUE}, expenses : SeqsUpTo(MonthlyRecords, MaxMonthly), now : Nows]
    /\ out = NoCall
SpecMonthly == InitMonthly /\ [][CallMonthlySpending]_vars

\* =========================================================== the storage layer
MaxStored == 2     \* elements of an array handed to save() or found in storage

\* ---- JavaScript values that reach JSON.stringify or come out of JSON.parse
Num(n) == [num |-> n]
Str(s) == [str |-> s]
Arr(q) == [arr |-> q]
Obj(f) == [obj |-> f]
JsNull == [nul |-> TRUE]
Undefined == [undef |-> TRUE]
NaN == [nan |-> TRUE]
Cyclic == [cyc |-> TRUE]       \* an object that contains itself

\* typeof v
TypeOf(v) ==
    CASE "num" \in DOMAIN v \/ "nan" \in DOMAIN v -> "number"
      [] "str" \in DOMAIN v -> "string"
      [] "undef" \in DOMAIN v -> "undefined"
      [] OTHER -> "object"
\* ToBoolean(v)
Truthy(v) ==
    CASE "num" \in DOMAIN v -> v.num # 0
      [] "str" \in DOMAIN v -> v.str # ""
      [] "nul" \in DOMAIN v \/ "undef" \in DOMAIN v \/ "nan" \in DOMAIN v -> FALSE
      [] OTHER -> TRUE
\* v.name for a v that is neither null nor undefined
Prop(v, name) ==
    IF "obj" \in DOMAIN v /\ name \in DOMAIN v.obj THEN v.obj[name] ELSE Undefined
\* Array.isArray(v)
IsArray(v) == "arr" \in DOMAIN v

\* ---- JSON text: a sequence of tokens, [p |-> punctuation or literal name],
\* [n |-> number literal] or [q |-> string literal]
P(c) == [p |-> c]

RECURSIVE HasCycle(_)
HasCycle(v) ==
    CASE "cyc" \in DOMAIN v -> TRUE
      [] "arr" \in DOMAIN v -> \E i \in 1..Len(v.arr) : HasCycle(v.arr[i])
      [] "obj" \in DOMAIN v -> \E f \in DOMAIN v.obj : HasCycle(v.obj[f])
      [] OTHER -> FALSE

RECURSIVE Join(_, _)
\* the texts of q separated by sep
Join(q, sep) ==
    IF q = <<>> THEN <<>>
    ELSE IF Len(q) = 1 THEN q[1]
    ELSE q[1] \o sep \o Join(Tail(q), sep)

RECURSIVE Serialize(_)
\* the text JSON.stringify writes for a value without cycles: NaN is written
\* as null, an undefined array element as null, an undefined member is left out
Serialize(v) ==
    CASE "num" \in DOMAIN v -> << [n |-> v.num] >>
      [] "str" \in DOMAIN v -> << [q |-> v.str] >>
      [] "arr" \in DOMAIN v ->
            <<P("[")>> \o Join([i \in 1..Len(v.arr) |-> Serialize(v.arr[i])], <<P(",")>>)
                       \o <<P("]")>>
      [] "obj" \in DOMAIN v ->
            LET names == SetToSeq({f \in DOMAIN v.obj : v.obj[f] # Undefined})
            IN  <<P("{")>> \o Join([i \in 1..Len(names) |->
                                      << [q |-> names[i]], P(":") >>
                                         \o Serialize(v.obj[names[i]])], <<P(",")>>)
                           \o <<P("}")>>
      [] OTHER -> <<P("null")>>

\* JSON.stringify(v): throws a TypeError for a cyclic value, returns undefined
\* for undefined
JsonStringify(v) ==
    IF HasCycle(v) THEN [ok |-> FALSE, error |-> "TypeError"]
    ELSE IF v = Undefined THEN [ok |-> TRUE, undef |-> TRUE]
    ELSE [ok |-> TRUE, undef |-> FALSE, v |-> Serialize(v)]
\* String(x) for what JSON.stringify returned
ToText(x) == IF x.undef THEN <<P("undefined")>> ELSE x.v

ParseFailed == [ok |-> FALSE, error |-> "SyntaxError"]
RECURSIVE ParseValue(_, _)
RECURSIVE ParseItems(_, _, _)
RECURSIVE ParseMembers(_, _, _)
\* the JSON value that starts at token i of t, and the token after it
ParseValue(t, i) ==
    IF i > Len(t) THEN ParseFailed
    ELSE CASE "n" \in DOMAIN t[i] -> [ok |-> TRUE, v |-> Num(t[i].n), next |-> i + 1]
           [] "q" \in DOMAIN t[i] -> [ok |-> TRUE, v |-> Str(t[i].q), next |-> i + 1]
           [] t[i] = P("null") -> [ok |-> TRUE, v |-> JsNull, next |-> i + 1]
           [] t[i] = P("[") ->
                 IF i < Len(t) /\ t[i + 1] = P("]")
                 THEN [ok |-> TRUE, v |-> Arr(<<>>), next |-> i + 2]
                 ELSE ParseItems(t, i + 1, <<>>)
           [] t[i] = P("{") ->
                 IF i < Len(t) /\ t[i + 1] = P("}")
                 THEN [ok |-> TRUE, v |-> Obj(<<>>), next |-> i + 2]
                 ELSE ParseMembers(t, i + 1, <<>>)
           [] OTHER -> ParseFailed
\* the elements of an array from token i on, after the elements acc
ParseItems(t, i, acc) ==
    LET e == ParseValue(t, i)
    IN  IF ~e.ok \/ e.next > Len(t) THEN ParseFailed
        ELSE IF t[e.next] = P(",") THEN ParseItems(t, e.next + 1, Append(acc, e.v))
        ELSE IF t[e.next] = P("]")
             THEN [ok |-> TRUE, v |-> Arr(Append(acc, e.v)), next |-> e.next + 1]
        ELSE ParseFailed
\* the members of an object from token i on, after the members acc; a name
\* that comes again replaces the earlier member
ParseMembers(t, i, acc) ==
    IF i + 1 > Len(t) \/ "q" \notin DOMAIN t[i] \/ t[i + 1] # P(":") THEN ParseFailed
    ELSE LET e == ParseValue(t, i + 2)
         IN  IF ~e.ok \/ e.next > Len(t) THEN ParseFailed
             ELSE IF t[e.next] = P(",")
                  THEN ParseMembers(t, e.next + 1, (t[i].q :> e.v) @@ acc)
             ELSE IF t[e.next] = P("}")
                  THEN [ok |-> TRUE, v |-> Obj((t[i].q :> e.v) @@ acc), next |-> e.next + 1]
             ELSE ParseFailed
\* JSON.parse(text): the value, or a SyntaxError
JsonParse(t) ==
    LET r == ParseValue(t, 1)
    IN  IF r.ok /\ r.next = Len(t) + 1 THEN [ok |-> TRUE, v |-> r.v] ELSE ParseFailed

\* ---- localStorage: an item is a text or absent; the browser can refuse a
\* read (storage disabled: SecurityError) and a write (QuotaExceededError)
GetItem(ls, key, refused) ==
    IF refused THEN [ok |-> FALSE, error |-> "SecurityError"]
    ELSE [ok |-> TRUE, v |-> ls[key]]
\* setItem(key, x) stores String(x)
SetItem(ls, key, x, refused) ==
    IF refused THEN [ok |-> FALSE, error |-> "QuotaExceededError"]
    ELSE [ok |-> TRUE, ls |-> [ls EXCEPT ![key] = ToText(x)]]

\* a call's outcome: it returned ret, or it raised
Returned(ret) == [raised |-> FALSE, ret |-> ret]
Raised(error) == [raised |-> TRUE, error |-> error]

\* storage.get without its catch clause
StorageGetNoCatch(ls, key, defaultValue, refused) ==
    LET item == GetItem(ls, key, refused)
    IN  IF ~item.ok THEN Raised(item.error)
        ELSE IF item.v = NoItem THEN Returned(defaultValue)
        ELSE LET parsed == JsonParse(item.v)
             IN  IF parsed.ok THEN Returned(parsed.v) ELSE Raised(parsed.error)

\* storage.get(key, defaultValue)
StorageGet(ls, key, defaultValue, refused) ==
    LET item == GetItem(ls, key, refused)
    IN  IF ~item.ok THEN Returned(defaultValue)                     \* catch
        ELSE IF item.v = NoItem THEN Returned(defaultValue)
        ELSE LET parsed == JsonParse(item.v)
             IN  IF parsed.ok THEN Returned(parsed.v)
                 ELSE Returned(defaultValue)                        \* catch

\* storage.set(key, value): the outcome and localStorage after it
StorageSet(ls, key, value, refused) ==
    LET text == JsonStringify(value)
    IN  IF ~text.ok THEN [call |-> Returned(FALSE), ls |-> ls]      \* catch
        ELSE LET put == SetItem(ls, key, text, refused)
             IN  IF put.ok THEN [call |-> Returned(TRUE), ls |-> put.ls]
                 ELSE [call |-> Returned(FALSE), ls |-> ls]         \* catch

\* expenseStorage._validateExpenses(expenses)
ValidateExpenses(expenses) ==
    IF ~IsArray(expenses) THEN Arr(<<>>)
    ELSE Arr(SelectSeq(expenses.arr, LAMBDA exp :
                /\ Truthy(exp)
                /\ TypeOf(Prop(exp, "id")) = "string"
                /\ TypeOf(Prop(exp, "amount")) = "number"
                /\ TypeOf(Prop(exp, "category")) = "string"
                /\ TypeOf(Prop(exp, "date")) = "string"))

\* expenseStorage.load()
ExpenseStorageLoad(ls, refused) ==
    LET expenses == StorageGet(ls, "expenseflow_expenses", Arr(<<>>), refused)
    IN  IF expenses.raised THEN expenses ELSE Returned(ValidateExpenses(expenses.ret))

DefaultSettings == Obj([theme |-> Str("dark"), currency |-> Str("USD")])
\* settingsStorage.load()
SettingsStorageLoad(ls, refused) == StorageGet(ls, "expenseflow_settings", DefaultSettings, refused)
\* budgetStorage.load()
BudgetStorageLoad(ls, refused) == StorageGet(ls, "expenseflow_budgets", Obj(<<>>), refused)

\* The save reports a write that it has not made.
StorageSaveDropped(ls, key, value, refused) ==
    [call |-> Returned(Undefined), ls |-> ls, wrote |-> ~refused]

\* expenseStorage.save, settingsStorage.save, budgetStorage.save: the result
\* of storage.set is dropped
StorageSave(ls, key, value, refused) ==
    LET set == StorageSet(ls, key, value, refused)
    IN  [call |-> IF set.call.raised THEN set.call ELSE Returned(Undefined), ls |-> set.ls,
         wrote |-> ~set.call.raised /\ set.call.ret]

\* ---- what callers save and what can be found in localStorage
ValidExpense ==
    Obj([id |-> Str("e1"), amount |-> Num(1), category |-> Str("food"), date |-> Str("2026-11-04")])
StoredElements ==
    { ValidExpense,
      Obj([id |-> Str("e2"), amount |-> NaN, category |-> Str("food"), date |-> Str("2026-11-04")]),
      Obj([id |-> Str("e3"), amount |-> Num(2), category |-> Str("food"), date |-> Undefined]) }
SavedExpenses ==
    { Arr(q) : q \in SeqsUpTo(StoredElements, MaxStored) } \cup {Undefined, Cyclic, JsNull}
SavedSettings == { Obj([theme |-> Str("light")]) }
SavedBudgets == { Obj([food |-> Num(1)]), Cyclic }

\* texts another tab, an earlier version or the user can have left in
\* localStorage: JSON texts and texts cut short
Prefixes(t) == { SubSeq(t, 1, n) : n \in 1..Len(t) }
ForeignTexts ==
    Prefixes(Serialize(Arr(<<JsNull, ValidExpense>>)))
    \cup { Serialize(v) :
              v \in { Arr(<<Obj([id |-> Num(1), amount |-> Num(1), category |-> Str("food"),
                                 date |-> Str("2026-11-04")]), Num(0)>>),
                      Obj([id |-> Str("e1")]), Num(1) } }
ForeignItems ==
    ({"expenseflow_expenses"} \X ForeignTexts)
    \cup { <<"expenseflow_settings", <<P("{")>> >>, <<"expenseflow_budgets", <<P("null")>> >> }

\* the last storage call: what was asked, whether the browser refused, how the
\* call ended, and for a save whether storage.set reported a write
ExpenseLoad(refused) ==
    /\ out' = [done |-> TRUE, op |-> "load", key |-> "expenseflow_expenses", refused |-> refused,
               call |-> ExpenseStorageLoad(localStorage, refused)]
    /\ UNCHANGED <<storeVars, debounceVars, routerVars, arg, localStorage, uiVars>>
SettingsLoad(refused) ==
    /\ out' = [done |-> TRUE, op |-> "load", key |-> "expenseflow_settings", refused |-> refused,
               call |-> SettingsStorageLoad(localStorage, refused)]
    /\ UNCHANGED <<storeVars, debounceVars, routerVars, arg, localStorage, uiVars>>
BudgetLoad(refused) ==
    /\ out' = [done |-> TRUE, op |-> "load", key |-> "expenseflow_budgets", refused |-> refused,
               call |-> BudgetStorageLoad(localStorage, refused)]
    /\ UNCHANGED <<storeVars, debounceVars, routerVars, arg, localStorage, uiVars>>
Saved(key, refused, save) ==
    [done |-> TRUE, op |-> "save", key |-> key, refused |-> refused, wrote |-> save.wrote,
     call |-> save.call]
ExpenseSave(expenses, refused) ==
    LET save == StorageSave(localStorage, "expenseflow_expenses", expenses, refused)
    IN  /\ out' = Saved("expenseflow_expenses", refused, save)
        /\ localStorage' = save.ls
        /\ UNCHANGED <<storeVars, debounceVars, routerVars, arg, uiVars>>
SettingsSave(settings, refused) ==
    LET save == StorageSave(localStorage, "expenseflow_settings", settings, refused)
    IN  /\ out' = Saved("expenseflow_settings", refused, save)
        /\ localStorage' = save.ls
        /\ UNCHANGED <<storeVars, debounceVars, routerVars, arg, uiVars>>
BudgetSave(budgets, refused) ==
    LET save == StorageSave(localStorage, "expenseflow_budgets", budgets, refused)
    IN  /\ out' = Saved("expenseflow_budgets", refused, save)
        /\ localStorage' = save.ls
        /\ UNCHANGED <<storeVars, debounceVars, routerVars, arg, uiVars>>
\* something else writes an item
ForeignWrite(key, text) ==
    /\ localStorage' = [localStorage EXCEPT ![key] = text]
    /\ out' = NoCall
    /\ UNCHANGED <<storeVars, debounceVars, routerVars, arg, uiVars>>

NextStorage ==
    \/ \E refused \in BOOLEAN : ExpenseLoad(refused)
    \/ \E refused \in BOOLEAN : SettingsLoad(refused)
    \/ \E refused \in BOOLEAN : BudgetLoad(refused)
    \/ \E expenses \in SavedExpenses, refused \in BOOLEAN : ExpenseSave(expenses, refused)
    \/ \E settings \in SavedSettings, refused \in BOOLEAN : SettingsSave(settings, refused)
    \/ \E budgets \in SavedBudgets, refused \in BOOLEAN : BudgetSave(budgets, refused)
    \/ \E item \in ForeignItems : ForeignWrite(item[1], item[2])
SpecStorage == Init /\ [][NextStorage]_vars

\* =================================================== the application's router
MaxAppTrans == 4   \* transitions of the application's router in one run

\* setupRouter: the route table, the not-found handler, one guard, one after-hook
AppRoutes ==
    [dashboard |-> "renderDashboard", analytics |-> "renderAnalytics",
     settings |-> "renderSettings"]
\* fragments the page is opened with or the user moves to
AppFragments == {"", "dashboard", "settings", "unknown"}
Unregistered(f) == ParseHash(f).path \notin DOMAIN AppRoutes

\* initializeApp up to router.init(): the router as setupRouter configured it
InitApp ==
    /\ StoreInit /\ AppInit /\ arg = NoCall /\ out = NoCall
    /\ hash \in AppFragments
    /\ pending = 0 /\ listening = FALSE /\ loadPending = FALSE
    /\ routes = AppRoutes /\ lastOn = AppRoutes
    /\ notFoundHandler = "notFoundHook"
    /\ beforeHooks = <<"beforeEachHook">>
    /\ afterHooks = <<"afterEachHook">>
    /\ currentRoute = Null
    /\ trans = <<>>

\* The not-found handler leaves the fragment as it is.
NotFoundStays(h) == h

\* () => router.navigate('dashboard')
NotFoundRedirect(h) == "dashboard"

\* The after-hook stores the path the transition came from.
AfterEachStoresFrom(view, args) == args[2]

\* (to, from) => { store.setState('currentView', to); ... }
AfterEachHook(view, args) == args[1]

\* what the hooks called in one step of a transition do: the log of the
\* transition was before, and the step made it tr.log
AppEffects(before, tr) ==
    LET new == SubSeq(tr.log, Len(before) + 1, Len(tr.log))
        redirect == \E i \in 1..Len(new) : new[i].ev = "notFound"
        afters == { i \in 1..Len(new) : new[i].ev = "after" }
        to == IF redirect THEN NotFoundRedirect(hash) ELSE hash
    IN  [hash |-> to,
         pending |-> IF to # hash THEN pending + 1 ELSE pending,
         currentView |-> IF afters = {} THEN currentView
                         ELSE AfterEachHook(currentView, new[CHOOSE i \in afters : TRUE].args)]

\* _handleRouteChange starts in the application
AppBegin ==
    /\ Len(trans) < MaxAppTrans
    /\ trans' = Append(trans, Started.tr)
    /\ currentRoute' = Started.cur
    /\ hash' = AppEffects(<<>>, Started.tr).hash
    /\ pending' = AppEffects(<<>>, Started.tr).pending
    /\ currentView' = AppEffects(<<>>, Started.tr).currentView

\* router.init(), the last statement of initializeApp
AppRouterInit ==
    /\ ~listening
    /\ listening' = TRUE
    /\ loadPending' = TRUE
    /\ AppBegin
    /\ UNCHANGED <<storeVars, debounceVars, calcVars, localStorage, listVars, routes, lastOn, notFoundHandler,
                   beforeHooks, afterHooks>>

\* the window's load event
AppLoad ==
    /\ listening /\ loadPending /\ Idle
    /\ loadPending' = FALSE
    /\ AppBegin
    /\ UNCHANGED <<storeVars, debounceVars, calcVars, localStorage, listVars, listening, routes, lastOn,
                   notFoundHandler, beforeHooks, afterHooks>>

\* a queued hashchange event is delivered
AppHashChange ==
    /\ listening /\ Idle
    /\ pending > 0
    /\ Len(trans) < MaxAppTrans
    /\ trans' = Append(trans, Started.tr)
    /\ currentRoute' = Started.cur
    /\ hash' = AppEffects(<<>>, Started.tr).hash
    /\ pending' = AppEffects(<<>>, Started.tr).pending - 1
    /\ currentView' = AppEffects(<<>>, Started.tr).currentView
    /\ UNCHANGED <<storeVars, debounceVars, calcVars, localStorage, listVars, listening, loadPending, routes, lastOn,
                   notFoundHandler, beforeHooks, afterHooks>>

\* The user follows a navigation link, uses a keyboard shortcut or edits the
\* address: the fragment changes.  A run keeps room for the transitions that
\* are already due and for the redirect of an unregistered path.
AppNavigate(f) ==
    /\ listening /\ Idle
    /\ f # hash
    /\ Len(trans) + pending + (IF loadPending THEN 1 ELSE 0)
          + (IF Unregistered(f) THEN 2 ELSE 1) <= MaxAppTrans
    /\ hash' = f
    /\ pending' = pending + 1
    /\ UNCHANGED <<storeVars, debounceVars, calcVars, localStorage, uiVars, listening, loadPending, routes,
                   lastOn, notFoundHandler, beforeHooks, afterHooks, currentRoute, trans>>

\* the continuation of transition t runs, with what the hooks it calls do
AppResume(t) ==
    /\ t \in 1..Len(trans) /\ trans[t].ready
    /\ trans' = [trans EXCEPT ![t] = Continued(t).tr]
    /\ currentRoute' = Continued(t).cur
    /\ hash' = AppEffects(trans[t].log, Continued(t).tr).hash
    /\ pending' = AppEffects(trans[t].log, Continued(t).tr).pending
    /\ currentView' = AppEffects(trans[t].log, Continued(t).tr).currentView
    /\ UNCHANGED <<storeVars, debounceVars, calcVars, localStorage, listVars, listening, loadPending, routes, lastOn,
                   notFoundHandler, beforeHooks, afterHooks>>

NextApp ==
    \/ AppRouterInit
    \/ AppLoad
    \/ AppHashChange
    \/ \E f \in AppFragments : AppNavigate(f)
    \/ \E t \in 1..MaxAppTrans : AppResume(t)
SpecApp == InitApp /\ [][NextApp]_vars
\* Events that are queued are delivered and queued continuations run.
SpecAppLive ==
    /\ SpecApp
    /\ WF_vars(AppRouterInit) /\ WF_vars(AppLoad) /\ WF_vars(AppHashChange)
    /\ \A t \in 1..MaxAppTrans : WF_vars(AppResume(t))

\* ====================================================== the expense handlers
MaxAdds == 2       \* expenses added in one run
MaxTimers == 2     \* deletions waiting for their timeout

\* generateId(): a new id at every call
GenerateId(n) == <<"exp_1", "exp_2", "exp_3", "exp_4">>[n]
\* the record handleFormSubmit builds from the form
ExpenseRecord(id, amount) ==
    Obj([id |-> Str(id), amount |-> Num(amount), category |-> Str("food"),
         description |-> Str("Food & Dining"), date |-> Str("2026-11-04T00:00:00.000Z")])
IdOf(exp) == exp.obj.id.str
\* store.getState().expenses: a copy made by JSON.parse(JSON.stringify(state))
GetStateExpenses == JsonParse(Serialize(Arr(storeExpenses))).v.arr

\* The deletion is never applied.
RemainingAll(list, expenseId) == list

\* expenses.filter(exp => exp.id !== expenseId)
Remaining(list, expenseId) == SelectSeq(list, LAMBDA exp : IdOf(exp) # expenseId)

\* an operation that ran to its end, and whether its write reached localStorage
Completed(op, wrote) == [done |-> TRUE, op |-> op, wrote |-> wrote]

\* handleFormSubmit with a valid form: amount is a positive number
HandleFormSubmit(amount, refused) ==
    /\ issued < MaxAdds
    /\ LET expense == ExpenseRecord(GenerateId(issued + 1), amount)
           list == <<expense>> \o GetStateExpenses
           save == StorageSave(localStorage, "expenseflow_expenses", Arr(list), refused)
       IN  /\ storeExpenses' = list
           /\ localStorage' = save.ls
           /\ intended' = <<expense>> \o intended
           /\ out' = Completed("add", save.wrote)
    /\ issued' = issued + 1
    /\ UNCHANGED <<storeVars, debounceVars, routerVars, arg, currentView, timers>>

\* handleExpenseAction: the delete button of a listed expense; the deletion is
\* left to a timeout of 300 ms
HandleExpenseAction(expenseId) ==
    /\ \E i \in 1..Len(storeExpenses) : IdOf(storeExpenses[i]) = expenseId
    /\ Len(timers) < MaxTimers
    /\ timers' = Append(timers, [id |-> expenseId])
    /\ intended' = SelectSeq(intended, LAMBDA exp : IdOf(exp) # expenseId)
    /\ UNCHANGED <<storeVars, debounceVars, routerVars, calcVars, localStorage, currentView, storeExpenses, issued>>

\* the timeout set by handleExpenseAction fires; timeouts of equal delay fire
\* in the order they were set
TimeoutFires(refused) ==
    /\ timers # <<>>
    /\ LET list == Remaining(GetStateExpenses, Head(timers).id)
           save == StorageSave(localStorage, "expenseflow_expenses", Arr(list), refused)
       IN  /\ storeExpenses' = list
           /\ localStorage' = save.ls
           /\ out' = Completed("delete", save.wrote)
    /\ timers' = Tail(timers)
    /\ UNCHANGED <<storeVars, debounceVars, routerVars, arg, currentView, issued, intended>>

\* handleClearAll, confirmed by the user
HandleClearAll(refused) ==
    /\ LET save == StorageSave(localStorage, "expenseflow_expenses", Arr(<<>>), refused)
       IN  /\ localStorage' = save.ls
           /\ out' = Completed("clearAll", save.wrote)
    /\ storeExpenses' = <<>>
    /\ intended' = <<>>
    /\ UNCHANGED <<storeVars, debounceVars, routerVars, arg, currentView, timers, issued>>

\* handleClearAllData, confirmed by the user: localStorage.clear() is not
\* guarded, so a refusal ends the handler before the store is written;
\* otherwise the store is reset and the fragment set to 'dashboard'
HandleClearAllData(refused) ==
    /\ localStorage' = IF refused THEN localStorage ELSE [k \in StorageKeys |-> NoItem]
    /\ storeExpenses' = IF refused THEN storeExpenses ELSE <<>>
    /\ intended' = IF refused THEN intended ELSE <<>>
    /\ hash' = IF refused THEN hash ELSE "dashboard"
    /\ pending' = IF ~refused /\ listening /\ hash # "dashboard" THEN pending + 1 ELSE pending
    /\ out' = IF refused THEN [done |-> FALSE, op |-> "clearAllData", raised |-> TRUE]
              ELSE Completed("clearAllData", TRUE)
    /\ UNCHANGED <<storeVars, debounceVars, arg, currentView, timers, issued, listening, loadPending, routes,
                   lastOn, notFoundHandler, beforeHooks, afterHooks, currentRoute, trans>>

\* what localStorage holds when the page is opened
StoredAtStart == { NoItem, Serialize(Arr(<<ExpenseRecord("exp_0", 1)>>)), <<P("[")>> }
\* initializeApp: loadPersistedData puts the loaded expenses in the store
InitExpenses ==
    /\ StoreInit /\ RouterInit /\ arg = NoCall /\ out = NoCall
    /\ currentView = "dashboard" /\ timers = <<>> /\ issued = 0
    /\ DebounceInit
    /\ \E item \in StoredAtStart :
          localStorage = [k \in StorageKeys |->
                            IF k = "expenseflow_expenses" THEN item ELSE NoItem]
    /\ storeExpenses = ExpenseStorageLoad(localStorage, FALSE).ret.arr
    /\ intended = storeExpenses

NextExpenses ==
    \/ \E amount \in {1, 2}, refused \in BOOLEAN : HandleFormSubmit(amount, refused)
    \/ \E n \in 0..MaxAdds : HandleExpenseAction(IF n = 0 THEN "exp_0" ELSE GenerateId(n))
    \/ \E refused \in BOOLEAN : TimeoutFires(refused)
    \/ \E refused \in BOOLEAN : HandleClearAll(refused)
    \/ \E refused \in BOOLEAN : HandleClearAllData(refused)
SpecExpenses == InitExpenses /\ [][NextExpenses]_vars

\* ============================================== setState from inside a callback
\* A subscriber or middleware of the host that writes to the Store while it is
\* being notified:  if (store.getState()[key] !== value) store.setState(key, value)
Reactions ==
    { [who |-> "cb1", key |-> "settings", value |-> S("2")],
      [who |-> "cb1", key |-> "isLoading", value |-> S("1")],
      [who |-> "mw1", key |-> "settings", value |-> S("2")] }

\* does this call of re.who, made in heap h, call setState?
Reacts(c, re, h) == c.cb = re.who /\ h[Root][re.key] # re.value

\* A Store that queues a setState made during a notification until the
\* notifications of the running setState are over.
RunCallsDeferred(h, q, re, d) ==
    LET outer == [i \in 1..Len(q) |-> Put([q[i] EXCEPT !.seen = h[Root]], "depth", d)]
        queued == \E i \in 1..Len(q) : Reacts(q[i], re, h)
        h2 == [h EXCEPT ![Root] = Put(@, re.key, re.value)]
        n == Notifications(re.key, re.value, h[Root][re.key], h2)
        inner == [i \in 1..Len(n) |-> Put(n[i], "depth", d + 1)]
    IN  IF queued THEN [h |-> h2, calls |-> outer \o inner]
        ELSE [h |-> h, calls |-> outer]

RECURSIVE RunCalls(_, _, _, _)
\* The forEach loops of a setState at nesting depth d, from heap h: each call
\* of q is made in turn, and a call of re.who that writes runs the whole inner
\* setState (assignment and all its notifications) before the loop goes on.
\* [h |-> the heap afterwards, calls |-> the calls in the order they were made]
RunCalls(h, q, re, d) ==
    IF q = <<>> THEN [h |-> h, calls |-> <<>>]
    ELSE LET c == Put([Head(q) EXCEPT !.seen = h[Root]], "depth", d)
             h2 == [h EXCEPT ![Root] = Put(@, re.key, re.value)]
             inner == IF Reacts(c, re, h)
                      THEN RunCalls(h2, Notifications(re.key, re.value,
                                                      h[Root][re.key], h2), re, d + 1)
                      ELSE [h |-> h, calls |-> <<>>]
             rest == RunCalls(inner.h, Tail(q), re, d)
         IN  [h |-> rest.h, calls |-> <<c>> \o inner.calls \o rest.calls]

\* setState(k, lit) by the host while the function re.who is registered
SetStateReentrant(k, lit, re) ==
    /\ LET oldValue == heap[Root][k]
           h1 == [heap EXCEPT ![Root] = Put(@, k, lit)]
           run == RunCalls(h1, Notifications(k, lit, oldValue, h1), re, 0)
       IN  /\ calls' = run.calls
           /\ LET g == Collect(run.h, snap) IN heap' = g.h /\ snap' = g.snap
           /\ written' = [f \in DOMAIN written |-> Deep(run.h, run.h[Root][f])]
    /\ last' = [op |-> "setState", key |-> k, value |-> lit, reaction |-> re]
    /\ UNCHANGED <<listeners, middlewares, regs, routerVars, calcVars, appVars>>

\* The Store with a subscriber or a middleware that calls setState.
NextReentrant ==
    \/ \E k \in {"settings", Wild}, cb \in Callbacks : Subscribe(k, cb)
    \/ Use("mw1")
    \/ \E w \in Writes, re \in Reactions : SetStateReentrant(w[1], w[2], re)

SpecReentrant == Init /\ [][NextReentrant]_vars

\* ================================================================== debounce
MaxClock == 8      \* instants of the clock, in units of 100 ms
MaxCalls == 3      \* calls of the debounced function

Delay == 3         \* debounce(handleFilterChange, 300)
InputEvents == {"e1", "e2"}     \* the arguments a call is made with

\* clearTimeout(id) that cancels nothing
ClearTimeoutIgnored(pend, id) == pend

\* clearTimeout(id): the timeout with this id, if still pending, is dropped;
\* an id that names no pending timeout (undefined, or one that ran) is ignored
ClearTimeout(pend, id) == { t \in pend : t.id # id }

\* setTimeout(() => fn.apply(this, args), delay): a new id, run when delay has passed
SetTimeout(pend, id, args, delay) ==
    pend \cup {[id |-> id, due |-> clock + delay, args |-> args]}

Due == { t \in scheduled : t.due <= clock }

\* The function debounce(fn, delay) returns, called with args.  A timeout
\* whose delay has passed runs before an event that arrives at that instant.
Debounced(args) ==
    /\ Len(made) < MaxCalls
    /\ Due = {}
    /\ LET id == Len(made) + 1
       IN  /\ scheduled' = SetTimeout(ClearTimeout(scheduled, timeoutId), id, args, Delay)
           /\ timeoutId' = id
    /\ made' = Append(made, [at |-> clock, args |-> args])
    /\ UNCHANGED <<storeVars, routerVars, calcVars, localStorage, uiVars, clock, invoked>>

\* A pending timeout's delay has passed: () => fn.apply(this, args) runs.
TimeoutRuns ==
    /\ \E t \in Due :
          /\ scheduled' = scheduled \ {t}
          /\ invoked' = Append(invoked, [at |-> clock, args |-> t.args,
                                         after |-> Len(made)])
    /\ UNCHANGED <<storeVars, routerVars, calcVars, localStorage, uiVars, clock, timeoutId, made>>

\* Time passes, once every timeout that is due has run.
Tick ==
    /\ clock < MaxClock
    /\ Due = {}
    /\ clock' = clock + 1
    /\ UNCHANGED <<storeVars, routerVars, calcVars, localStorage, uiVars, scheduled, timeoutId,
                   made, invoked>>

NextDebounce ==
    \/ \E e \in InputEvents : Debounced(e)
    \/ TimeoutRuns
    \/ Tick

SpecDebounce == Init /\ [][NextDebounce]_vars

\* ================================================================ claims
StateContent == Deep(heap, R(Root))
InPhase(kind) == SelectSeq(calls, LAMBDA c : c.kind = kind)
Cbs(q) == [i \in 1..Len(q) |-> q[i].cb]
Live(k, cb) == regs[<<k, cb>>].live
Count(q, cb) == Cardinality({ i \in 1..Len(q) : q[i].cb = cb })

\* C1: after any sequence of setState and batchUpdate calls, getState() maps
\* every written key to the value of its most recent write and every other key
\* to its initial value.
C1_GetStateReflectsLastWrite ==
    last.op = "getState" =>
        \A k \in DOMAIN written :
            k \in DOMAIN last.ret.o /\ last.ret.o[k] = written[k]

\* What getState() does return: the last written values as JSON represents them.
GetStateReflectsJsonOfLastWrite ==
    last.op = "getState" => last.ret = JsonRoundTrip(O(written))

C3_DisposeRemovesOnlyItsRegistration ==
    last.op = "setState" =>
        /\ Range(Cbs(InPhase("key"))) = { cb \in Callbacks : Live(last.key, cb) > 0 }
        /\ Range(Cbs(InPhase("wild"))) = { cb \in Callbacks : Live(Wild, cb) > 0 }

\* The same statement where no (key, callback) pair was ever subscribed twice:
\* this much of C3 the registry does guarantee.
DisposeRemovesOnlyItsCallback ==
    (\A p \in Pairs : regs[p].live + regs[p].disposed <= 1)
    => C3_DisposeRemovesOnlyItsRegistration

\* C4: one batchUpdate(updates) invokes every wildcard subscriber exactly once,
\* in registration order, with the full updated state and the list of the keys
\* of updates, and invokes no per-key subscriber and no middleware.
C4_BatchNotifiesWildcardOnce ==
    last.op = "batchUpdate" =>
        /\ Len(calls) = Len(listeners[Wild])
        /\ \A i \in 1..Len(calls) :
              calls[i] = [kind |-> "wild", cb |-> listeners[Wild][i],
                          args |-> <<R(Root), [keys |-> last.keys]>>,
                          seen |-> heap[Root]]
        /\ \A k \in Range(last.keys) : heap[Root][k] = written[k]

\* C4 witness: a batch of two keys with a middleware, a subscriber on one of
\* the keys and a wildcard subscriber registered.
C4_Witness ==
    /\ last.op = "batchUpdate" /\ Len(last.keys) = 2
    /\ middlewares # <<>>
    /\ \E k \in Range(last.keys) : listeners[k] # <<>>
    /\ listeners[Wild] # <<>> /\ calls # <<>>

\* C5: within one setState(key, value) the value is assigned first, then every
\* middleware runs in registration order, then every subscriber of key in
\* registration order, then every wildcard subscriber in registration order.
C5_SetStatePhaseOrder ==
    last.op = "setState" =>
        /\ [i \in 1..Len(calls) |-> <<calls[i].kind, calls[i].cb>>]
             = [i \in 1..Len(middlewares) |-> <<"mw", middlewares[i]>>]
               \o [i \in 1..Len(listeners[last.key]) |-> <<"key", listeners[last.key][i]>>]
               \o [i \in 1..Len(listeners[Wild]) |-> <<"wild", listeners[Wild][i]>>]
        /\ \A i \in 1..Len(calls) : calls[i].seen[last.key] = last.value

\* C5 witness: a setState with two different middlewares, two subscribers of
\* the key and a wildcard subscriber.
C5_Witness ==
    /\ last.op = "setState"
    /\ Len(middlewares) = 2 /\ middlewares[1] # middlewares[2]
    /\ Len(listeners[last.key]) = 2 /\ listeners[Wild] # <<>>
    /\ Len(calls) = 5

\* C6: on setState(k, v) each subscriber registered on k is invoked with
\* (v, the value k held immediately before the call), and no subscriber that is
\* registered only on another key is invoked.
C6_KeySubscribersGetNewAndOld ==
    [][last'.op = "setState" =>
         LET k == last'.key
             keyCalls == SelectSeq(calls', LAMBDA c : c.kind = "key")
         IN  /\ Cbs(keyCalls) = listeners[k]
             /\ \A i \in 1..Len(keyCalls) :
                   keyCalls[i].args = <<last'.value, heap[Root][k]>>]_vars

\* C6 witness: a setState that changes the value, with a subscriber on the key
\* and a different subscriber registered only on the other key.
C6_Witness ==
    /\ last.op = "setState"
    /\ \E c \in Range(InPhase("key")) : c.args[1] # c.args[2]
    /\ \E k \in Keys \ {last.key} :
          \E cb \in Range(listeners[k]) : cb \notin Range(listeners[last.key])

\* C7: subscribing the same callback to the same key twice creates two
\* independent registrations: each setState on the key invokes the callback
\* once per live registration, also after one of the two was disposed.
C7_DuplicateRegistrationsIndependent ==
    last.op = "setState" =>
        \A cb \in Callbacks :
            Count(InPhase("key"), cb) = Live(last.key, cb)
\* ------------------------------------------------------- Router claims
Trans == 1..Len(trans)
At(t, evs) == { n \in 1..Len(trans[t].log) : trans[t].log[n].ev \in evs }
\* the position where call number n of the log of t returned, 0 if it has not
RetOf(t, n) ==
    LET rs == { m \in At(t, {"ret"}) : trans[t].log[m].of = n }
    IN  IF rs = {} THEN 0 ELSE CHOOSE m \in rs : TRUE
\* guard calls of t whose result was false
Refused(t) ==
    { n \in At(t, {"guard"}) : RetOf(t, n) # 0 /\ trans[t].log[RetOf(t, n)].res = "false" }
Rank(t, n) == Cardinality({ m \in At(t, {"guard"}) : m <= n })

\* C8: once a before-guard of a transition has returned or resolved to false,
\* the transition calls no later guard, never assigns the current path, calls
\* no handler, not-found handler or after-hook and updates no nav link; no step
\* of that transition changes the current path.
C8_FalseGuardAborts ==
    /\ [](\A t \in Trans : \A n \in Refused(t) :
             /\ At(t, {"path", "handler", "notFound", "nav", "after"}) = {}
             /\ \A m \in At(t, {"guard"}) : m <= n
             /\ ~trans[t].ready => trans[t].pc = "cancelled")
    /\ [][\A t \in Trans :
             Refused(t) # {} /\ trans'[t] # trans[t] => currentRoute' = currentRoute]_vars
C8_Witness ==
    \E t \in Trans :
        /\ trans[t].pc = "cancelled"
        /\ trans[t].path = "settings" /\ trans[t].prev = "dashboard"
        /\ currentRoute = "dashboard"
        /\ beforeHooks = <<"gBlock", "gSlowOk">>
        /\ lastOn["settings"] # Null
        /\ notFoundHandler # Null
        /\ afterHooks # <<>>

\* C9: a transition that passed its guards calls exactly one function as its
\* handler: the handler most recently registered for its path when there is
\* one, and otherwise the not-found handler, with the path, when one is
\* registered; a transition that has not passed its guards calls neither.
C9_ExactlyTheRegisteredHandler ==
    \A t \in Trans :
        LET tr == trans[t]
            hs == At(t, {"handler"})
            ns == At(t, {"notFound"})
            own == IF tr.path \in RoutePaths THEN lastOn[tr.path] ELSE Null
        IN  IF At(t, {"path"}) = {} THEN hs = {} /\ ns = {}
            ELSE IF own # Null
                 THEN /\ ns = {} /\ Cardinality(hs) = 1
                      /\ \A n \in hs : tr.log[n].fn = own
            ELSE IF notFoundHandler # Null
                 THEN /\ hs = {} /\ Cardinality(ns) = 1
                      /\ \A n \in ns : tr.log[n].fn = notFoundHandler
                                      /\ tr.log[n].args = <<tr.path>>
            ELSE hs = {} /\ ns = {}
C9_Witness ==
    /\ Len(trans) = 2
    /\ trans[1].pc = "done" /\ trans[1].path = "dashboard"
    /\ trans[2].pc = "done" /\ trans[2].path = "unknown"
    /\ lastOn["dashboard"] = "h1" /\ lastOn["settings"] = "h2"
    /\ notFoundHandler = "nf"
    /\ \E n \in At(1, {"handler"}) : trans[1].log[n].fn = "h1"
    /\ \E n \in At(2, {"notFound"}) : trans[2].log[n].args = <<"unknown">>

\* C10: in one transition the k-th guard call is the call of the k-th
\* registered guard, it is made only after the previous guard call has
\* returned (for a promise: settled), and the assignment of the current path
\* and the handler call come only after every registered guard has returned.
C10_GuardsSequentialBeforeCommit ==
    \A t \in Trans :
        LET tr == trans[t]
            gs == At(t, {"guard"})
        IN  /\ \A n \in gs :
                  /\ Rank(t, n) <= Len(beforeHooks)
                  /\ tr.log[n].fn = beforeHooks[Rank(t, n)]
                  /\ tr.log[n].args = <<tr.path, tr.prev>>
                  /\ \A m \in gs : m < n => RetOf(t, m) # 0 /\ RetOf(t, m) < n
            /\ \A p \in At(t, {"path", "handler", "notFound"}) :
                  /\ Cardinality(gs) = Len(beforeHooks)
                  /\ \A m \in gs : RetOf(t, m) # 0 /\ RetOf(t, m) < p
C10_Witness ==
    \E t \in Trans :
        /\ beforeHooks = <<"gSlowOk", "gBlock">>
        /\ At(t, {"handler"}) # {}
        /\ trans[t].prev = "dashboard"
        /\ currentRoute = trans[t].path

RankOf(t, ev, n) == Cardinality({ m \in At(t, {ev}) : m <= n })
\* calls of t that have not returned
Pending(t, evs) == { n \in At(t, evs) : RetOf(t, n) = 0 }

\* C11: in every transition the k-th after-hook call is the call of the k-th
\* registered after-hook with (path, previous path), made after the path was
\* assigned, after the handler or not-found handler has returned and after the
\* previous after-hook has returned; a finished transition has called them all;
\* the previous path is the current path at the start of the transition.
C11_AfterHooksSequentialAfterHandler ==
    /\ [](\A t \in Trans :
            LET tr == trans[t]
                hooks == At(t, {"after"})
            IN  /\ \A n \in hooks :
                      /\ RankOf(t, "after", n) <= Len(afterHooks)
                      /\ tr.log[n].fn = afterHooks[RankOf(t, "after", n)]
                      /\ tr.log[n].args = <<tr.path, tr.prev>>
                      /\ \E p \in At(t, {"path"}) : p < n
                      /\ \A m \in hooks : m < n => RetOf(t, m) # 0 /\ RetOf(t, m) < n
                      /\ \A h \in At(t, {"handler", "notFound"}) :
                            RetOf(t, h) # 0 /\ RetOf(t, h) < n
                /\ tr.pc = "done" => Cardinality(hooks) = Len(afterHooks))
    /\ [][Len(trans') > Len(trans) => trans'[Len(trans')].prev = currentRoute]_vars
C11_Witness ==
    \E t \in Trans :
        /\ trans[t].pc = "done"
        /\ trans[t].path = "settings" /\ trans[t].prev = "dashboard"
        /\ afterHooks = <<"a2", "a1">>
        /\ \E h \in At(t, {"handler"}) : trans[t].log[h].fn = "h2"

\* a transition whose path has neither a handler nor a not-found handler
Unrouted(t) ==
    /\ At(t, {"path"}) # {}
    /\ notFoundHandler = Null
    /\ trans[t].path \in RoutePaths => lastOn[trans[t].path] = Null

\* C12: a transition to a path with no handler, when no not-found handler is
\* registered, calls no handler and still commits: the step that ends its guard
\* chain sets the current path to its path and goes on to the nav-link update
\* and the after-hooks, and when it has finished every after-hook was called.
C12_UnroutedPathCommitsSilently ==
    /\ [](\A t \in Trans : Unrouted(t) =>
            /\ At(t, {"handler", "notFound"}) = {}
            /\ \A p \in At(t, {"path"}) :
                  /\ trans[t].log[p].to = trans[t].path
                  /\ p < Len(trans[t].log) /\ trans[t].log[p + 1].ev = "nav"
            /\ trans[t].pc \in {"after", "done"}
            /\ trans[t].pc = "done" => Cardinality(At(t, {"after"})) = Len(afterHooks))
    /\ [][\A t \in 1..Len(trans') :
            (/\ At(t, {"path"})' # {}
             /\ t \in Trans => At(t, {"path"}) = {}
             /\ notFoundHandler = Null
             /\ trans'[t].path \notin { p \in RoutePaths : routes[p] # Null })
            => currentRoute' = trans'[t].path]_vars
C12_Witness ==
    \E t \in Trans :
        /\ trans[t].pc = "done"
        /\ trans[t].path = "unknown" /\ trans[t].prev = "dashboard"
        /\ notFoundHandler = Null
        /\ lastOn["dashboard"] # Null
        /\ Len(afterHooks) = 2 /\ Cardinality(At(t, {"after"})) = 2
        /\ Len(beforeHooks) > 0

\* C13: while a before-guard call of one transition has not returned, no later
\* transition has called a guard, assigned the path, called a handler or an
\* after-hook.
C13_PendingGuardStallsLaterTransitions ==
    \A t1 \in Trans : \A t2 \in Trans :
        t1 < t2 /\ Pending(t1, {"guard"}) # {} => trans[t2].log = <<>>

\* C14: when a middleware or subscriber throws during setState, every
\* middleware, every subscriber of the key and every wildcard subscriber is
\* still called, and setState returns normally.
C14_ThrowingCallbackIsContained ==
    last.op = "setState" /\ last.raising # {} =>
        /\ ~last.threw
        /\ Cbs(InPhase("mw")) = middlewares
        /\ Cbs(InPhase("key")) = listeners[last.key]
        /\ Cbs(InPhase("wild")) = listeners[Wild]

\* the pairs of the fragment that have no '=' and whose key no later pair repeats
Valueless(cs) ==
    LET ps == QueryPairs(cs)
    IN  { i \in 1..Len(ps) :
            /\ Len(Split(ps[i], "=")) = 1
            /\ \A j \in (i + 1)..Len(ps) :
                  DecodeURIComponent(PairKey(ps[j])).v # DecodeURIComponent(PairKey(ps[i])).v }

\* C15: whatever the query string of the fragment, the transition does not
\* fail: it goes on to the guards, and a pair without '=value' gives its key
\* the empty string.
C15_MalformedQueryTolerated ==
    out.done =>
        /\ ~out.failed /\ out.next = "guards"
        /\ \A i \in Valueless(arg.hash) :
              out.params[DecodeURIComponent(PairKey(QueryPairs(arg.hash)[i])).v] = <<>>

\* What holds: a transition whose parse did not throw gives the empty string
\* to every pair without '=value', and the parse throws exactly when a key or a
\* value has a '%' that two hex digits do not follow.
PairWithoutValueIsEmpty ==
    out.done =>
        /\ ~out.failed =>
              \A i \in Valueless(arg.hash) :
                 out.params[DecodeURIComponent(PairKey(QueryPairs(arg.hash)[i])).v] = <<>>
        /\ out.failed <=>
              \E i \in 1..Len(QueryPairs(arg.hash)) :
                 \/ ~DecodeURIComponent(PairKey(QueryPairs(arg.hash)[i])).ok
                 \/ ~DecodeURIComponent(PairValue(QueryPairs(arg.hash)[i])).ok

RECURSIVE SumAmounts(_)
SumAmounts(q) == IF q = <<>> THEN 0 ELSE Head(q).amount + SumAmounts(Tail(q))
InCategories(q, cats) == SelectSeq(q, LAMBDA e : e.category \in cats)
Categories(q) == { q[i].category : i \in 1..Len(q) }

\* C16: the totals have exactly the known category keys; a known category's
\* total is the sum of the amounts of its records; the amounts of the records
\* of unknown categories are added to the total of "other".
C16_CategoryTotals ==
    out.done =>
        /\ DOMAIN out.totals = CategoryKeys
        /\ \A cat \in CategoryKeys \ {"other"} :
              out.totals[cat] = SumAmounts(InCategories(arg.expenses, {cat}))
        /\ out.totals["other"] =
              SumAmounts(InCategories(arg.expenses,
                                      {"other"} \cup (Categories(arg.expenses) \ CategoryKeys)))

\* What holds: every known key is present, with the sum of the amounts of the
\* records of exactly that category; records of unknown categories are in no total.
KnownCategoryTotals ==
    out.done =>
        /\ DOMAIN out.totals = CategoryKeys
        /\ \A cat \in CategoryKeys :
              out.totals[cat] = SumAmounts(InCategories(arg.expenses, {cat}))

AmountsOf(q) == [i \in 1..Len(q) |-> q[i].amount]
RECURSIVE ExactTotal(_)
ExactTotal(q) == IF q = <<>> THEN 0 ELSE Head(q) + ExactTotal(Tail(q))
Least(q) == CHOOSE x \in Range(q) : \A y \in Range(q) : x <= y
Greatest(q) == CHOOSE x \in Range(q) : \A y \in Range(q) : x >= y
\* no addition of the running sum was rounded
SumsExactly(q) == \A n \in 1..Len(q) : IsFloat(ExactTotal(SubSeq(q, 1, n)))

\* C20 as stated: the empty list gives all zeros; a non-empty list gives its
\* length, its least and greatest element, its total (when no addition was
\* rounded), an average that is the quotient of sum by count rounded to the
\* nearest value, and that average always lies between min and max.
C20_StatsOfAmounts ==
    out.done =>
        LET q == AmountsOf(arg.expenses)
            st == out.stats
        IN  IF q = <<>>
            THEN st = [total |-> 0, avg |-> 0, min |-> 0, max |-> 0, count |-> 0]
            ELSE /\ st.count = Len(q)
                 /\ st.min = Least(q) /\ st.max = Greatest(q)
                 /\ SumsExactly(q) => st.total = ExactTotal(q)
                 /\ 2 * st.avg * st.count - 2 * st.total <= Ulp(st.avg) * st.count
                 /\ 2 * st.total - 2 * st.avg * st.count <= Ulp(st.avg) * st.count
                 /\ st.min <= st.avg /\ st.avg <= st.max

\* C20 in floating-point arithmetic: count, min and max are exact; avg is the
\* rounded quotient of the returned sum by the count; when no addition of the
\* running sum was rounded, the sum is the total, avg is the rounded mean and
\* min <= avg <= max.
C20_StatsOfAmountsRounded ==
    out.done =>
        LET q == AmountsOf(arg.expenses)
            st == out.stats
        IN  IF q = <<>>
            THEN st = [total |-> 0, avg |-> 0, min |-> 0, max |-> 0, count |-> 0]
            ELSE /\ st.count = Len(q)
                 /\ st.min = Least(q) /\ st.max = Greatest(q)
                 /\ IsFloat(st.total) /\ IsFloat(st.avg)
                 /\ 2 * st.avg * st.count - 2 * st.total <= Ulp(st.avg) * st.count
                 /\ 2 * st.total - 2 * st.avg * st.count <= Ulp(st.avg) * st.count
                 /\ SumsExactly(q) =>
                       /\ st.total = ExactTotal(q)
                       /\ st.min <= st.avg /\ st.avg <= st.max
C20_Witness ==
    /\ out.done
    /\ Len(arg.expenses) = 3
    /\ SumsExactly(AmountsOf(arg.expenses))
    /\ out.stats.min < out.stats.avg /\ out.stats.avg < out.stats.max
    /\ out.stats.avg * 3 # out.stats.total
    /\ out.stats.total >= Pow2(SigBits)

NoOpFilters == [searchQuery |-> <<>>, category |-> "all", dateRange |-> "all", sortBy |-> NoSort]
\* the lists applyFilters can return for the list q under the filters of the call
Again(q) == { o.mem[o.ret] : o \in ApplyFilters(q, arg.filters, Today, arg.tz) }

\* C17: under the no-op filter spec with no sort key applyFilters returns the
\* input's records in the input's order, applying it to its own result returns
\* that result again, and the input list is left as it was.
C17_NoOpFiltersIdentity ==
    out.done /\ arg.filters = NoOpFilters =>
        /\ out.result = arg.expenses
        /\ Again(out.result) = {out.result}
        /\ out.input = arg.expenses
C17_Witness ==
    /\ out.done /\ arg.filters = NoOpFilters
    /\ Len(arg.expenses) = 3
    /\ arg.expenses[1].category = "other" /\ arg.expenses[2].category = "food"
    /\ arg.expenses[1].amount > arg.expenses[2].amount
    /\ arg.expenses[1].date # arg.expenses[3].date
    /\ out.fresh

\* the value the result is ordered by
OrderKey(e) ==
    IF arg.filters.sortBy.prop = "amount" THEN e.amount
    ELSE DayNo(Number(SubSeq(e.date, 1, 4)), Number(SubSeq(e.date, 6, 7)),
               Number(SubSeq(e.date, 9, 10)))
InOrder(r) ==
    \A i, j \in 1..Len(r) : i < j =>
        IF arg.filters.sortBy.order = "asc" THEN OrderKey(r[i]) <= OrderKey(r[j])
        ELSE OrderKey(r[i]) >= OrderKey(r[j])

\* C18: with a sort key the result is ordered by that key in the requested
\* direction, and records with equal key values keep their original relative
\* order (ids are positions in the input).
C18_SortIsStable ==
    out.done /\ arg.filters.sortBy # NoSort =>
        /\ InOrder(out.result)
        /\ \A i, j \in 1..Len(out.result) :
              i < j /\ OrderKey(out.result[i]) = OrderKey(out.result[j])
                 => out.result[i].id < out.result[j].id

\* What holds: the result is ordered by the key in the requested direction and
\* the input list is left as it was.
SortOrdersByKey ==
    out.done /\ arg.filters.sortBy # NoSort =>
        InOrder(out.result) /\ out.input = arg.expenses

\* the calendar month k places into a six-month window that ends at the month
\* of now, as a count of months
WindowMonth(now, k) == now.y * 12 + (now.mo - 1) - (6 - k)
\* the calendar month a record is dated in, as a count of months
RecordMonth(e) == Number(SubSeq(e.date, 1, 4)) * 12 + Number(SubSeq(e.date, 6, 7)) - 1
DatedIn(q, month) == SelectSeq(q, LAMBDA e : RecordMonth(e) = month)

\* C19: the result has exactly 6 entries; entry k is for the k-th month of the
\* six calendar months that end at the current one, oldest first; its value is
\* the sum of the amounts of the records dated in that year and month, so that
\* no record is counted in two entries.
C19_SixMonthlyBuckets ==
    out.done =>
        /\ Len(out.months) = 6
        /\ \A k \in 1..6 :
              /\ out.months[k].label = MonthShort((WindowMonth(arg.now, k) % 12) + 1)
              /\ out.months[k].value =
                    SumAmounts(DatedIn(arg.expenses, WindowMonth(arg.now, k)))
        /\ SumAmounts([k \in 1..6 |-> [amount |-> out.months[k].value]])
              <= SumAmounts(arg.expenses)
C19_Witness ==
    /\ out.done
    /\ arg.now.mo = 2
    /\ out.months[1].label = "Sep" /\ out.months[1].value = 2
    /\ out.months[5].value = 1
    /\ out.months[6] = [label |-> "Feb", value |-> 0]
    /\ Len(arg.expenses) = 3

\* what a load returns when nothing usable is stored
DefaultOf(key) ==
    CASE key = "expenseflow_expenses" -> Arr(<<>>)
      [] key = "expenseflow_settings" -> DefaultSettings
      [] OTHER -> Obj(<<>>)
\* the read or the parse of the item under key fails
ReadFails(key, refused) ==
    refused \/ (localStorage[key] # NoItem /\ ~JsonParse(localStorage[key]).ok)
WellFormedExpense(e) ==
    /\ "obj" \in DOMAIN e
    /\ {"id", "amount", "category", "date"} \subseteq DOMAIN e.obj
    /\ "str" \in DOMAIN e.obj.id /\ "str" \in DOMAIN e.obj.category /\ "str" \in DOMAIN e.obj.date
    /\ "num" \in DOMAIN e.obj.amount

\* C21: no load and no save raises.  A load whose read or parse fails returns
\* the default of its collection, a save returns nothing whether or not the
\* write succeeded, and the expense load returns a list that holds only records
\* with a string id, a numeric amount, a string category and a string date,
\* which is empty when the stored value is not a list.
C21_PersistenceNeverRaises ==
    out.done =>
        /\ ~out.call.raised
        /\ out.op = "save" => out.call.ret = Undefined
        /\ out.op = "load" /\ ReadFails(out.key, out.refused) =>
              out.call.ret = DefaultOf(out.key)
        /\ out.op = "load" /\ out.key = "expenseflow_expenses" =>
              /\ IsArray(out.call.ret)
              /\ \A e \in Range(out.call.ret.arr) : WellFormedExpense(e)
              /\ ~ReadFails(out.key, out.refused) /\ localStorage[out.key] # NoItem
                 /\ ~IsArray(JsonParse(localStorage[out.key]).v) => out.call.ret = Arr(<<>>)
\* a load of an item cut short
C21_Witness ==
    /\ out.done /\ out.op = "load" /\ out.key = "expenseflow_expenses" /\ ~out.refused
    /\ Len(localStorage[out.key]) > 4 /\ ~JsonParse(localStorage[out.key]).ok
    /\ out.call = Returned(Arr(<<>>))

\* JSON.parse reads what JSON.stringify wrote, and writing the parsed value
\* again gives the same text.
SavedTextParses ==
    out.done /\ out.op = "save" /\ out.wrote /\ localStorage[out.key] # <<P("undefined")>> =>
        /\ JsonParse(localStorage[out.key]).ok
        /\ Serialize(JsonParse(localStorage[out.key]).v) = localStorage[out.key]

\* C22: a step that changes the fragment (navigate) leaves the current path
\* and every transition as they were, and so calls no guard, handler or
\* after-hook: it only queues one fragment-change signal.  A transition starts
\* only in a step that delivers a queued signal, or in init() and the load
\* event, and it is for the path the fragment names at that moment.
C22_NavigateOnlyRequests ==
    [][ /\ hash' # hash =>
              currentRoute' = currentRoute /\ trans' = trans /\ pending' = pending + 1
        /\ Len(trans') > Len(trans) =>
              /\ hash' = hash
              /\ pending' = pending - 1 \/ loadPending' # loadPending
              /\ trans'[Len(trans')].path = ParseHash(hash).path ]_vars
\* navigate("settings") has been called after the initial transition finished
\* and its signal has not been delivered: the handler of settings has not run
C22_Witness ==
    /\ hash = "settings" /\ pending = 1
    /\ currentRoute = "dashboard"
    /\ routes["settings"] = "h1"
    /\ Len(trans) = 1 /\ trans[1].pc = "done"

Finished(t) == t <= Len(trans) /\ trans[t].pc = "done"
\* transition a still awaits a guard or its handler, and transition b, which
\* started while a was waiting, has run to its end
Overtaken(a, b) == a < b /\ Finished(b) /\ ~Finished(a)

\* C23: when a later transition starts while an earlier one still awaits a
\* guard or its handler, then once both have run to their end the current path
\* is the path of the later one: the step that ends the earlier transition
\* after the later one has ended and made its path current leaves it current.
C23_LaterSignalWins ==
    [][ \A a, b \in 1..MaxTrans :
           (/\ Overtaken(a, b) /\ currentRoute = trans[b].path
            /\ trans'[a].pc = "done") =>
               currentRoute' = trans[b].path ]_vars

\* the calls of route handlers, and of the k-th after-hook, in all transitions
HandlerCalls == UNION { {t} \X At(t, {"handler"}) : t \in Trans }
AfterCalls(k) ==
    UNION { {t} \X { n \in At(t, {"after"}) : RankOf(t, "after", n) = k } : t \in Trans }
\* the fragment is the one init() found and no change of it is queued
NoFragmentChange ==
    hash = "" /\ pending = 0 /\ \A t \in Trans : trans[t].path = "dashboard"

\* C24: from init() on, as long as the fragment has not changed, the handler
\* of the initial route and each after-hook have been called at most once, and
\* exactly once when the load event has been delivered and no transition is
\* left in progress or was cancelled.
C24_InitialTransitionOnce ==
    listening /\ NoFragmentChange =>
        /\ Cardinality(HandlerCalls) <= 1
        /\ \A k \in 1..Len(afterHooks) : Cardinality(AfterCalls(k)) <= 1
        /\ ~loadPending /\ (\A t \in Trans : trans[t].pc = "done") =>
              /\ routes["dashboard"] # Null => Cardinality(HandlerCalls) = 1
              /\ \A k \in 1..Len(afterHooks) : Cardinality(AfterCalls(k)) = 1

\* the dashboard is the current path and its handler has run in a transition
\* after transition t
DashboardShownAfter(t) ==
    /\ currentRoute = "dashboard"
    /\ \E u \in Trans : /\ u > t /\ trans[u].path = "dashboard"
                        /\ \E n \in At(u, {"handler"}) : trans[u].log[n].fn = "renderDashboard"

\* C25: with the application's route table, once a transition has found its
\* path unregistered and called the not-found handler, the run comes to a state
\* where the current path is "dashboard" and renderDashboard has been invoked
\* in a later transition, unless the fragment has been changed to another
\* registered path in the meantime.
C25_UnknownLeadsToDashboard ==
    \A t \in 1..MaxAppTrans :
        (t <= Len(trans) /\ At(t, {"notFound"}) # {})
            ~> \/ DashboardShownAfter(t)
               \/ ~Unregistered(hash) /\ ParseHash(hash).path # "dashboard"
\* the page was opened with an unregistered fragment and the dashboard is shown
C25_Witness ==
    /\ Len(trans) >= 2 /\ trans[1].path = "unknown" /\ At(1, {"notFound"}) # {}
    /\ DashboardShownAfter(1) /\ hash = "dashboard"
    /\ \A t \in Trans : trans[t].pc = "done"

\* C26: after init(), whenever no transition is in progress, the store's
\* currentView is the router's current path.
C26_CurrentViewFollowsRoute ==
    listening /\ (\A t \in Trans : trans[t].pc \in {"done", "cancelled"}) =>
        currentView = currentRoute
\* three fragment changes in a row have been processed and the view is settings
C26_Witness ==
    /\ Len(trans) = MaxAppTrans /\ \A t \in Trans : trans[t].pc = "done"
    /\ currentRoute = "settings" /\ currentView = "settings"
    /\ trans[MaxAppTrans].prev = "settings"

\* the expense list expenseStorage.load() returns from the present localStorage
Persisted == ExpenseStorageLoad(localStorage, FALSE).ret

C28_DelayedDeletesLoseNothing ==
    /\ timers = <<>> => storeExpenses = intended
    /\ \A e \in Range(intended) : e \in Range(storeExpenses)
\* the stored expense and the first added one were deleted by two timeouts,
\* and the expense added while they were pending is the one left
C28_Witness ==
    /\ timers = <<>> /\ out.done /\ out.op = "delete"
    /\ issued = 2
    /\ Len(storeExpenses) = 1 /\ IdOf(storeExpenses[1]) = "exp_2"
    /\ localStorage["expenseflow_expenses"] # NoItem

\* ---- C29
\* the calls of the last setState made by the setState it was called from
\* (depth 0) and by a setState called from one of its callbacks (depth 1)
Reentrant == "reaction" \in DOMAIN last
AtDepth(d) == { i \in DOMAIN calls : calls[i].depth = d }
\* the call during which setState was called again
ReactingCall == CHOOSE r \in AtDepth(0) : r + 1 \in AtDepth(1)

\* C29 as stated: when a subscriber or middleware calls setState during a
\* notification, every wildcard subscriber is notified of the changes in the
\* order of the assignments (the outer change, then the inner one), and each
\* key subscriber of the outer call receives a new value equal to the value
\* the key holds at the moment it is invoked.
C29_ReentrantOrdered ==
    Reentrant =>
        /\ \A i, j \in DOMAIN calls :
              (/\ i < j
               /\ calls[i].kind = "wild" /\ calls[j].kind = "wild"
               /\ calls[i].cb = calls[j].cb)
              => calls[i].depth <= calls[j].depth
        /\ \A i \in AtDepth(0) :
              calls[i].kind = "key" => calls[i].args[1] = calls[i].seen[last.key]

\* C29: what setState does when called during a notification.  The inner
\* setState runs whole (its assignment and all its notifications) inside the
\* call that made it, so every notification the outer setState makes after
\* that call, its wildcard notifications included, comes after those of the
\* inner change; and every key subscriber of the outer call receives the outer
\* call's value, which is no longer the key's value exactly when the inner
\* call wrote the same key before that subscriber was invoked.
C29_ReentrantNested ==
    Reentrant =>
        /\ AtDepth(0) \cup AtDepth(1) = DOMAIN calls
        /\ AtDepth(1) # {} =>
              /\ calls[ReactingCall].cb = last.reaction.who
              /\ \A i \in AtDepth(0), j \in AtDepth(1) :
                    (i > ReactingCall) = (i > j)
        /\ \A i \in AtDepth(0) :
              calls[i].kind = "key" =>
                 /\ calls[i].args[1] = last.value
                 /\ (calls[i].args[1] # calls[i].seen[last.key])
                      = (/\ last.reaction.key = last.key
                         /\ \E j \in AtDepth(1) : j < i)

\* a key subscriber of the outer call was handed a value the key no longer
\* held, and a wildcard subscriber learnt of the inner change first
C29_Witness ==
    /\ Reentrant
    /\ \E i \in AtDepth(0) :
          calls[i].kind = "key" /\ calls[i].args[1] # calls[i].seen[last.key]
    /\ \E i \in AtDepth(1), j \in AtDepth(0) :
          /\ i < j
          /\ calls[i].kind = "wild" /\ calls[j].kind = "wild"
          /\ calls[i].cb = calls[j].cb

\* ---- C30
\* call i is the last of its burst: no call follows it by less than Delay
LastOfBurst(i) == i = Len(made) \/ made[i + 1].at - made[i].at >= Delay
\* the bursts that are over: their last call's delay has passed and its
\* timeout has run
BurstEnds == { i \in DOMAIN made : LastOfBurst(i) /\ (i < Len(made) \/ scheduled = {}) }
\* the k-th smallest element of a set of numbers
Nth(set, k) == CHOOSE x \in set : Cardinality({ y \in set : y <= x }) = k

\* C30: every burst of calls of a debounced function, each call less than
\* delay after the one before, gives exactly one invocation of fn, made delay
\* after the burst's last call and with that call's arguments; fn is never
\* invoked while a call made before it is still within its delay.
C30_DebounceOncePerBurst ==
    /\ Len(invoked) = Cardinality(BurstEnds)
    /\ \A k \in DOMAIN invoked :
          /\ invoked[k].at = made[Nth(BurstEnds, k)].at + Delay
          /\ invoked[k].args = made[Nth(BurstEnds, k)].args
          /\ \A i \in 1..invoked[k].after : invoked[k].at >= made[i].at + Delay

\* a burst of calls with different arguments has ended and fn has been
\* invoked with the arguments of its last call
C30_Witness ==
    \E i \in DOMAIN made :
        /\ i + 1 \in BurstEnds
        /\ made[i + 1].at - made[i].at < Delay
        /\ made[i + 1].at > made[i].at
        /\ made[i].args # made[i + 1].args
        /\ \E k \in DOMAIN invoked : invoked[k].at = made[i + 1].at + Delay

====
